---- MODULE Spec2Model ----
(***************************************************************************)
(* A model of the Zenith market-structure analysis engine (analysis.py)    *)
(* and of the pipeline that assembles its results (app.py).                *)
(*                                                                         *)
(* Prices are integers (ticks).  A candle series is a sequence of records; *)
(* the code's 0-based position i is read with Iloc(df, i).  Each analysis  *)
(* function has a specification of its own: Init draws the call's          *)
(* arguments from bounded sets and the actions run the function.           *)
(***************************************************************************)
EXTENDS Integers, Sequences, FiniteSets, TLC

VARIABLES
    pc,                 \* position of the running call
    data,               \* the candle series (df)
    pivots,             \* the pivot list (find_levels' third result)
    lookback,           \* the lookback= argument of the running call
    window,             \* find_levels(window=)
    support,            \* find_levels' first result
    resistance,         \* find_levels' second result
    market_structure,   \* determine_market_structure's result <<label, reason>>
    objects,            \* the zone dicts in memory, by object identity
    zones,              \* the list handed to _merge_zones (object identities, in list order)
    tolerance_multiplier, \* _merge_zones(tolerance_multiplier=), as <<numerator, denominator>>
    merged_zones,       \* the list the first _merge_zones call returned
    remerged,           \* the list _merge_zones returned when given merged_zones
    loop_i,             \* a detector's outer loop index i
    scan_k,             \* a detector's mitigation-scan index (k; j in find_fvgs)
    zone_data,          \* the zone dict being built (zone_data, fvg_zone, ob_zone)
    made,               \* how many zone dicts the call has constructed
    bullish,            \* demand_zones / bullish_fvg / bullish_obs
    bearish,            \* supply_zones / bearish_fvg / bearish_obs
    result,             \* the pair of lists the detector returned
    analysis,           \* the analysis dict handed to the suggestion and the scoring
    float_type,         \* the type of the level values in the dict: "float" or "numpy.float64"
    suggestion,         \* the suggestion dict (analysis["suggestion"] in the pipeline)
    confidence,         \* the confidence score (analysis["confidence"] in the pipeline)
    error,              \* whether the pipeline set analysis["error"]
    calls,              \* how many calls of the detector have been started on the same input
    entry_pc,           \* the detector called, by the position at which its call starts
    columns,            \* whether df has the candle columns (an empty list makes a frame without)
    first_result,       \* what the first of two calls returned
    tf_i,               \* _run_full_analysis: the position of tf in timeframes
    step,               \* _run_single_timeframe_analysis: the next statement of its try block
    keys,               \* the keys the analysis dict of the running timeframe has
    analyses,           \* _run_full_analysis: analyses, each dict given by its keys
    fault,              \* per timeframe, the call that raises ("none" when none does)
    avail,              \* per timeframe, what the terminal gives: "ok", "no_connection", "few_bars"
    tolerance_percent,  \* find_liquidity_pools(tolerance_percent=), as <<numerator, denominator>>
    pool_side,          \* which pools are being found: "high" (buy side) or "low" (sell side)
    swing,              \* swing_highs or swing_lows, sorted by price
    pool_i,             \* the index i of the loop over the sorted swings
    current_group,      \* current_group
    groups,             \* groups
    buy_side_pools,     \* buy_side_pools
    sell_side_pools,    \* sell_side_pools
    n_rows,             \* run_backtest: len(df)
    closes,             \* the closes the loop reads, candle 49 onwards
    bt_i,               \* the loop index i
    balance,            \* the account balance
    open_trade,         \* the open trade, or none
    trades,             \* the closed trades
    bt_result,          \* the dict run_backtest returns
    pos_type,           \* the position: 0 Buy, 1 Sell
    price_open,         \* its open price, in points
    position_sl,        \* its stop-loss at the broker, 0 for none
    snapshot_sl,        \* position.sl of the object a cycle works on
    settings,           \* breakeven and trailing-stop settings
    digits,             \* symbol_info.digits
    request,            \* the stop-loss last requested in this cycle
    autotrade_running,  \* STATE.autotrade_running
    autotrade_thread,   \* STATE.autotrade_thread: a thread, or 0 for None
    auto_trading_enabled,\* STATE.settings['auto_trading_enabled']
    handlers,           \* each request handler: where it is, its thread_to_join
    threads,            \* each trading_loop thread: where it is, its settings copy
    stopped             \* a stop request has returned 'Auto-trading stopped.'

sharedVars == <<pc, data, pivots, lookback>>
levelVars == <<window, support, resistance>>
structVars == <<market_structure>>
mergeVars == <<objects, zones, tolerance_multiplier, merged_zones, remerged>>
detectVars == <<loop_i, scan_k, zone_data, made, bullish, bearish, result>>
analysisVars == <<analysis, float_type, suggestion, confidence, error>>
callVars == <<entry_pc, columns>>
twiceVars == <<calls, first_result>>
fullVars == <<tf_i, step, keys, analyses, fault, avail>>
poolVars == <<tolerance_percent, pool_side, swing, pool_i, current_group, groups, buy_side_pools, sell_side_pools>>
backtestVars == <<n_rows, closes, bt_i, balance, open_trade, trades, bt_result>>
monitorVars == <<pos_type, price_open, position_sl, snapshot_sl, settings, digits, request>>
autotradeVars == <<autotrade_running, autotrade_thread, auto_trading_enabled, handlers, threads, stopped>>
vars == <<sharedVars, levelVars, structVars, mergeVars, detectVars, analysisVars, callVars, twiceVars,
          fullVars,
          poolVars,
          backtestVars,
          monitorVars,
          autotradeVars>>

(***************************************************************************)
(* Bounds of the model.                                                    *)
(***************************************************************************)
LevelsMaxPrice == 3
LevelsMaxLen == 5
MaxWindow == 2
StructMaxPrice == 3
StructMaxPivots == 4
MaxLookback == 2
MergeMaxPrice == 5
MergeMaxZones == 3
FvgMaxPrice == 4
FvgMaxLen == 5
SdMaxPrice == 2
SdMaxLen == 4
ObMaxPrice == 3
ObMaxLen == 4
AnMaxPrice == 2

(***************************************************************************)
(* Values shared by the functions.                                         *)
(***************************************************************************)
None == "None"

\* An optional number: Null for None/null, Num(x) for the number x.
Null == <<>>
Num(x) == <<x>>
Val(o) == o[1]

Max(a, b) == IF a >= b THEN a ELSE b
Min(a, b) == IF a <= b THEN a ELSE b

SeqUpTo(S, n) == UNION {[1..m -> S] : m \in 0..n}

\* The candle at 0-based position i.
Iloc(df, i) == df[i + 1]

\* Candle times grow with the position.
TimeAt(i) == 1000 + 60 * i

Candle(i, o, h, l, c) == [time |-> TimeAt(i), open |-> o, high |-> h, low |-> l, close |-> c]

\* Python's list.sort / sorted: a stable sort of s by the integer keys key[p].
StableSortByKey(s, key) ==
    LET n == Len(s)
        rank(a) == 1 + Cardinality({b \in 1..n : key[b] < key[a] \/ (key[b] = key[a] /\ b < a)})
    IN  [p \in 1..n |-> s[CHOOSE a \in 1..n : rank(a) = p]]

\* s[-k:] for k >= 1.
LastK(s, k) == IF Len(s) <= k THEN s ELSE SubSeq(s, Len(s) - k + 1, Len(s))

\* Variables a specification other than g leaves parked at their idle values.
LevelsIdle == window = 0 /\ support = <<>> /\ resistance = <<>>
StructIdle == market_structure = None
DetectIdle ==
    /\ loop_i = 0 /\ scan_k = 0 /\ zone_data = None /\ made = 0
    /\ bullish = <<>> /\ bearish = <<>> /\ result = None
MergeIdle == objects = <<>> /\ zones = <<>> /\ tolerance_multiplier = None /\ merged_zones = <<>> /\ remerged = <<>>
AnalysisIdle ==
    /\ analysis = None /\ float_type = None /\ suggestion = None /\ confidence = Null
    /\ error = FALSE
CallIdle == entry_pc = None /\ columns = TRUE
TwiceIdle == calls = 0 /\ first_result = None
FullIdle ==
    /\ tf_i = 0 /\ step = 0 /\ keys = {} /\ analyses = <<>> /\ fault = None /\ avail = None
PoolsIdle ==
    /\ tolerance_percent = None /\ pool_side = None /\ swing = <<>> /\ pool_i = 0
    /\ current_group = <<>> /\ groups = <<>> /\ buy_side_pools = <<>> /\ sell_side_pools = <<>>
BacktestIdle ==
    /\ n_rows = 0 /\ closes = <<>> /\ bt_i = 0 /\ balance = 0
    /\ open_trade = <<>> /\ trades = <<>> /\ bt_result = None
MonitorIdle ==
    /\ pos_type = 0 /\ price_open = 0 /\ position_sl = 0 /\ snapshot_sl = 0
    /\ settings = None /\ digits = 0 /\ request = Null
AutotradeIdle ==
    /\ autotrade_running = FALSE /\ autotrade_thread = 0 /\ auto_trading_enabled = FALSE
    /\ handlers = <<>> /\ threads = <<>> /\ stopped = FALSE

Parked(g) ==
    /\ IF g = "levels" THEN TRUE ELSE LevelsIdle
    /\ IF g = "structure" THEN TRUE ELSE StructIdle
    /\ IF g = "merge" THEN TRUE ELSE MergeIdle
    /\ IF g = "detect" THEN TRUE ELSE DetectIdle
    /\ IF g = "analysis" THEN TRUE ELSE AnalysisIdle
    /\ IF g = "detect" THEN TRUE ELSE CallIdle
    /\ IF g = "twice" THEN TRUE ELSE TwiceIdle
    /\ IF g = "full" THEN TRUE ELSE FullIdle
    /\ IF g = "pools" THEN TRUE ELSE PoolsIdle
    /\ IF g = "backtest" THEN TRUE ELSE BacktestIdle
    /\ IF g = "monitor" THEN TRUE ELSE MonitorIdle
    /\ IF g = "autotrade" THEN TRUE ELSE AutotradeIdle

Frame(g) ==
    /\ IF g = "levels" THEN TRUE ELSE UNCHANGED levelVars
    /\ IF g = "structure" THEN TRUE ELSE UNCHANGED structVars
    /\ IF g = "merge" THEN TRUE ELSE UNCHANGED mergeVars
    /\ IF g = "detect" THEN TRUE ELSE UNCHANGED detectVars
    /\ IF g = "analysis" THEN TRUE ELSE UNCHANGED analysisVars
    /\ UNCHANGED callVars
    /\ IF g = "twice" THEN TRUE ELSE UNCHANGED twiceVars
    /\ IF g = "full" THEN TRUE ELSE UNCHANGED fullVars
    /\ IF g = "pools" THEN TRUE ELSE UNCHANGED poolVars
    /\ IF g = "backtest" THEN TRUE ELSE UNCHANGED backtestVars
    /\ IF g = "monitor" THEN TRUE ELSE UNCHANGED monitorVars
    /\ IF g = "autotrade" THEN TRUE ELSE UNCHANGED autotradeVars

(***************************************************************************)
(* find_levels                                                             *)
(***************************************************************************)
\* The low test with <= in place of <: a tie with a neighbour still passes.
IsLowLe(df, i, w) ==
    /\ \A j \in 1..w : Iloc(df, i).low <= Iloc(df, i - j).low
    /\ \A j \in 1..w : Iloc(df, i).low <= Iloc(df, i + j).low

\* Lines 134-135.
is_low(df, i, w) ==
    /\ \A j \in 1..w : Iloc(df, i).low < Iloc(df, i - j).low
    /\ \A j \in 1..w : Iloc(df, i).low < Iloc(df, i + j).low

\* Lines 140-141.
is_high(df, i, w) ==
    /\ \A j \in 1..w : Iloc(df, i).high > Iloc(df, i - j).high
    /\ \A j \in 1..w : Iloc(df, i).high > Iloc(df, i + j).high

Pivot(df, i, t) ==
    [type |-> t, price |-> IF t = "low" THEN Iloc(df, i).low ELSE Iloc(df, i).high,
     index |-> i, time |-> Iloc(df, i).time]

\* The pivots appended at position i: the low pivot, then the high pivot.
PivotsAt(df, i, w) ==
    (IF is_low(df, i, w) THEN <<Pivot(df, i, "low")>> ELSE <<>>)
    \o (IF is_high(df, i, w) THEN <<Pivot(df, i, "high")>> ELSE <<>>)

\* The loop written range(window - 1, len(df) - window + 1) with range(1, window)
\* neighbours: one position early, one late, one neighbour short on each side.
LevelsScanWide(df, w) ==
    LET n == Len(df)
        f[i \in (w - 1)..Max(w - 1, n - w + 1)] ==
            IF i >= n - w + 1 THEN <<>> ELSE PivotsAt(df, i, w - 1) \o f[i + 1]
    IN  f[w - 1]

\* The loop of lines 133-144 over range(window, len(df) - window).
LevelsScan(df, w) ==
    LET n == Len(df)
        f[i \in w..Max(w, n - w)] ==
            IF i >= n - w THEN <<>> ELSE PivotsAt(df, i, w) \o f[i + 1]
    IN  f[w]

\* pivots.sort(key=lambda x: x['index'])
SortByIndex(ps) == StableSortByKey(ps, [p \in 1..Len(ps) |-> ps[p].index])

\* sorted(list(set(prices)), reverse=True)[:3]
TopThree(prices) ==
    LET S == {prices[p] : p \in 1..Len(prices)}
        desc[T \in SUBSET S] ==
            IF T = {} THEN <<>>
            ELSE LET m == CHOOSE x \in T : \A y \in T : y <= x
                 IN  <<m>> \o desc[T \ {m}]
        all == desc[S]
    IN  IF Len(all) <= 3 THEN all ELSE SubSeq(all, 1, 3)

PricesOf(ps, t) ==
    LET sel == SelectSeq(ps, LAMBDA p : p.type = t)
    IN  [q \in 1..Len(sel) |-> sel[q].price]

LevelBars == {b \in [low : 1..LevelsMaxPrice, high : 1..LevelsMaxPrice] : b.low <= b.high}

BarsData(bars) == [p \in 1..Len(bars) |-> Candle(p - 1, bars[p].low, bars[p].high, bars[p].low, bars[p].high)]

InitLevels ==
    /\ pc = "find_levels"
    /\ \E bars \in SeqUpTo(LevelBars, LevelsMaxLen) : data = BarsData(bars)
    /\ window \in 1..MaxWindow
    /\ pivots = <<>>
    /\ lookback = 0
    /\ support = <<>>
    /\ resistance = <<>>
    /\ Parked("levels")

FindLevels ==
    /\ pc = "find_levels"
    /\ pivots' = SortByIndex(LevelsScan(data, window))
    /\ support' = TopThree(PricesOf(pivots', "low"))
    /\ resistance' = TopThree(PricesOf(pivots', "high"))
    /\ pc' = "done"
    /\ UNCHANGED <<data, window, lookback>>
    /\ Frame("levels")

NextLevels == FindLevels

SpecLevels == InitLevels /\ [][NextLevels]_vars

\* C1: every pivot find_levels returns has an index i with window <= i < n - window.
C1_PivotIndexInRange ==
    pc = "done" =>
        \A p \in 1..Len(pivots) :
            window <= pivots[p].index /\ pivots[p].index < Len(data) - window

\* A run that returned pivots at both ends of the range, window and n - window - 1.
C1_Witness ==
    /\ pc = "done"
    /\ window < Len(data) - window - 1
    /\ \E p \in 1..Len(pivots) : pivots[p].index = window
    /\ \E p \in 1..Len(pivots) : pivots[p].index = Len(data) - window - 1

\* The other candles of the window [i - w, i + w].
Others(i, w) == ((i - w)..(i + w)) \ {i}

HasPivot(i, t) == \E p \in 1..Len(pivots) : pivots[p].index = i /\ pivots[p].type = t

\* C2: for every i in [w, n - w) there is a Low pivot at i iff low[i] is strictly
\* below the low of every other candle of [i - w, i + w], and a High pivot at i iff
\* high[i] is strictly above every other high of the window; each test stands alone,
\* a pivot carries its candle's price, no (index, type) is emitted twice, and the
\* list is in non-decreasing index order.
C2_PivotIffStrictExtremum ==
    pc = "done" =>
        /\ \A i \in window..(Len(data) - window - 1) :
            /\ HasPivot(i, "low") <=>
                   \A k \in Others(i, window) : Iloc(data, i).low < Iloc(data, k).low
            /\ HasPivot(i, "high") <=>
                   \A k \in Others(i, window) : Iloc(data, i).high > Iloc(data, k).high
        /\ \A p \in 1..Len(pivots) :
            /\ pivots[p].price = (IF pivots[p].type = "low" THEN Iloc(data, pivots[p].index).low
                                  ELSE Iloc(data, pivots[p].index).high)
            /\ \A q \in 1..Len(pivots) :
                  (pivots[p].index = pivots[q].index /\ pivots[p].type = pivots[q].type) => p = q
        /\ \A p \in 1..(Len(pivots) - 1) : pivots[p].index <= pivots[p + 1].index

\* A run with a Low and a High pivot at one index, and a position whose low ties
\* with a neighbour's and so yields no Low pivot.
C2_Witness ==
    /\ pc = "done"
    /\ \E i \in 0..(Len(data) - 1) : HasPivot(i, "low") /\ HasPivot(i, "high")
    /\ \E i \in window..(Len(data) - window - 1) :
          /\ ~HasPivot(i, "low")
          /\ \A k \in Others(i, window) : Iloc(data, i).low <= Iloc(data, k).low

(***************************************************************************)
(* determine_market_structure                                              *)
(***************************************************************************)
\* s[-k:]: Python reads s[-0:] as the whole list.
PyLast(s, k) == IF k = 0 THEN s ELSE LastK(s, k)

\* The filter without its type test: every pivot counts as a swing point.
SwingsAny(ps, t) == ps

\* [p for p in pivots if p['type'] == t]
Swings(ps, t) == SelectSeq(ps, LAMBDA p : p.type = t)

\* The uptrend test with >= : an equal high or low still counts as higher.
IsUptrendGe(last_high, prev_high, last_low, prev_low) ==
    last_high >= prev_high /\ last_low >= prev_low

\* Line 166.
IsUptrend(last_high, prev_high, last_low, prev_low) ==
    last_high > prev_high /\ last_low > prev_low

\* Line 169.
IsDowntrend(last_high, prev_high, last_low, prev_low) ==
    last_high < prev_high /\ last_low < prev_low

NotEnoughReason == "Not enough swing points to determine a clear trend."
ConsolidatingReason == "The market is consolidating with no clear directional bias from recent swing points."

DetermineMarketStructure(ps, lb) ==
    LET swing_highs == PyLast(Swings(ps, "high"), lb)
        swing_lows == PyLast(Swings(ps, "low"), lb)
    IN  IF Len(swing_highs) < 2 \/ Len(swing_lows) < 2
        THEN <<"Ranging", NotEnoughReason>>
        ELSE LET last_high == swing_highs[Len(swing_highs)].price
                 prev_high == swing_highs[Len(swing_highs) - 1].price
                 last_low == swing_lows[Len(swing_lows)].price
                 prev_low == swing_lows[Len(swing_lows) - 1].price
             IN  IF IsUptrend(last_high, prev_high, last_low, prev_low)
                 THEN <<"Uptrend", <<"The market is in an uptrend (HH, HL).", last_high, prev_high>>>>
                 ELSE IF IsDowntrend(last_high, prev_high, last_low, prev_low)
                 THEN <<"Downtrend", <<"The market is in a downtrend (LL, LH).", last_low, prev_low>>>>
                 ELSE <<"Ranging", ConsolidatingReason>>

DefaultLookback == 10

\* Pivot lists as find_levels shapes them: in index order, at most a low and a high
\* per index, the low first.
StructMarks == [type : {"low", "high"}, price : 1..StructMaxPrice]

StructPivots(marks) ==
    [p \in 1..Len(marks) |->
        [type |-> marks[p].type, price |-> marks[p].price, index |-> p, time |-> TimeAt(p)]]

InitStructure ==
    /\ pc = "determine_market_structure"
    /\ data = <<>>
    /\ \E marks \in SeqUpTo(StructMarks, StructMaxPivots) : pivots = StructPivots(marks)
    /\ lookback \in (1..MaxLookback) \cup {DefaultLookback}
    /\ market_structure = None
    /\ Parked("structure")

DetermineStructure ==
    /\ pc = "determine_market_structure"
    /\ market_structure' = DetermineMarketStructure(pivots, lookback)
    /\ pc' = "done"
    /\ UNCHANGED <<data, pivots, lookback>>
    /\ Frame("structure")

NextStructure == DetermineStructure

SpecStructure == InitStructure /\ [][NextStructure]_vars

\* The prices of the pivots of type t, in list order, and how many of them the
\* lookback keeps.
PriceList(t) ==
    LET idx == {p \in 1..Len(pivots) : pivots[p].type = t}
        nth[k \in 1..Cardinality(idx)] ==
            CHOOSE p \in idx : Cardinality({q \in idx : q <= p}) = k
    IN  [k \in 1..Cardinality(idx) |-> pivots[nth[k]].price]

Kept(t) == Min(lookback, Len(PriceList(t)))

HigherHighHigherLow ==
    LET H == PriceList("high")
        L == PriceList("low")
    IN  /\ Kept("high") >= 2 /\ Kept("low") >= 2
        /\ H[Len(H)] > H[Len(H) - 1] /\ L[Len(L)] > L[Len(L) - 1]

LowerHighLowerLow ==
    LET H == PriceList("high")
        L == PriceList("low")
    IN  /\ Kept("high") >= 2 /\ Kept("low") >= 2
        /\ H[Len(H)] < H[Len(H) - 1] /\ L[Len(L)] < L[Len(L) - 1]

C4_TooFewSwingsIsRanging ==
    (pc = "done" /\ (Kept("high") < 2 \/ Kept("low") < 2)) =>
        market_structure = <<"Ranging", NotEnoughReason>>

\* A run over three rising lows and a single high.
C4_Witness ==
    /\ pc = "done"
    /\ Len(PriceList("high")) = 1
    /\ Len(PriceList("low")) = 3
    /\ LET L == PriceList("low") IN L[1] < L[2] /\ L[2] < L[3]
    /\ market_structure[1] = "Ranging"

(***************************************************************************)
(* _merge_zones                                                            *)
(***************************************************************************)
\* A zone dict, as the detectors build it.
Zone(h, l, t, m) == [high |-> h, low |-> l, time |-> t, mitigated |-> m]

\* The sort left out: the list stays in the caller's order.
NoSort(zs) == zs

\* zones.sort(key=lambda z: z['low'])
SortByLow(zs) == StableSortByKey(zs, [p \in 1..Len(zs) |-> zs[p].low])

\* Lines 21 and 24: current['low'] <= last['high'] + (last['high'] - last['low']) * m,
\* with m = tm[1] / tm[2].
\* The test without the tolerance: only zones that touch or overlap are merged.
Overlaps(current_zone, last_merged_zone, tm) ==
    current_zone.low <= last_merged_zone.high

WithinTolerance(current_zone, last_merged_zone, tm) ==
    tm[2] * current_zone.low <=
        tm[2] * last_merged_zone.high + (last_merged_zone.high - last_merged_zone.low) * tm[1]

\* The loop of lines 17-29 from position k on.  zs is the sorted list, whose dicts
\* the loop changes in place; heads are the positions of the dicts that
\* merged_zones holds.
RECURSIVE MergeLoop(_, _, _, _)
MergeLoop(zs, heads, k, tm) ==
    IF k > Len(zs) THEN [zones |-> zs, heads |-> heads]
    ELSE LET h == heads[Len(heads)]
             last_merged_zone == zs[h]
             current_zone == zs[k]
         IN  IF WithinTolerance(current_zone, last_merged_zone, tm)
             THEN MergeLoop([zs EXCEPT ![h].high = Max(last_merged_zone.high, current_zone.high),
                                       ![h].low = Min(last_merged_zone.low, current_zone.low)],
                            heads, k + 1, tm)
             ELSE MergeLoop(zs, Append(heads, k), k + 1, tm)

\* _merge_zones(zs, tm) on the dicts' values: the list it returns (merged) and the
\* state it leaves the argument list in (zones).
MergeZones(zs, tm) ==
    IF zs = <<>> THEN [zones |-> zs, merged |-> <<>>]
    ELSE LET r == MergeLoop(SortByLow(zs), <<1>>, 2, tm)
         IN  [zones |-> r.zones, merged |-> [p \in 1..Len(r.heads) |-> r.zones[r.heads[p]]]]

\* A list of object identities read as the list of the dicts they name, each
\* tagged with its identity.
Tagged(objs, ids) ==
    [p \in 1..Len(ids) |->
        [ref |-> ids[p], high |-> objs[ids[p]].high, low |-> objs[ids[p]].low,
         time |-> objs[ids[p]].time, mitigated |-> objs[ids[p]].mitigated]]

Untagged(z) == Zone(z.high, z.low, z.time, z.mitigated)

Refs(zs) == [p \in 1..Len(zs) |-> zs[p].ref]

\* The dicts a list of identities names, in list order.
Deref(objs, ids) == [p \in 1..Len(ids) |-> objs[ids[p]]]

\* _merge_zones on a list of dict objects: the memory it leaves (objects), the
\* order it leaves its argument list in (zones), and the list it returns (merged).
\* The returned list holds dicts of the argument list, not copies.
MergeInPlace(objs, ids, tm) ==
    LET r == MergeZones(Tagged(objs, ids), tm)
    IN  [objects |-> [o \in DOMAIN objs |->
                          IF \E p \in 1..Len(r.zones) : r.zones[p].ref = o
                          THEN Untagged(r.zones[CHOOSE p \in 1..Len(r.zones) : r.zones[p].ref = o])
                          ELSE objs[o]],
         zones |-> Refs(r.zones),
         merged |-> Refs(r.merged)]

DefaultToleranceMultiplier == <<1, 2>>

MergeBounds == {b \in [low : 1..MergeMaxPrice, high : 1..MergeMaxPrice] : b.low <= b.high}

MergeInput(bs) == [p \in 1..Len(bs) |-> Zone(bs[p].high, bs[p].low, TimeAt(p), FALSE)]

InitMerge ==
    /\ pc = "_merge_zones"
    /\ data = <<>>
    /\ pivots = <<>>
    /\ lookback = 0
    /\ \E bs \in SeqUpTo(MergeBounds, MergeMaxZones) :
          /\ objects = MergeInput(bs)
          /\ zones = [p \in 1..Len(bs) |-> p]
    /\ tolerance_multiplier \in {<<0, 1>>, DefaultToleranceMultiplier, <<1, 1>>}
    /\ merged_zones = <<>>
    /\ remerged = <<>>
    /\ Parked("merge")

\* merged_zones = _merge_zones(zones, m)
MergeOnce ==
    /\ pc = "_merge_zones"
    /\ LET r == MergeInPlace(objects, zones, tolerance_multiplier)
       IN  objects' = r.objects /\ zones' = r.zones /\ merged_zones' = r.merged
    /\ pc' = "merged_once"
    /\ UNCHANGED <<data, pivots, lookback, tolerance_multiplier, remerged>>
    /\ Frame("merge")

\* remerged = _merge_zones(merged_zones, m)
MergeAgain ==
    /\ pc = "merged_once"
    /\ LET r == MergeInPlace(objects, merged_zones, tolerance_multiplier)
       IN  objects' = r.objects /\ merged_zones' = r.zones /\ remerged' = r.merged
    /\ pc' = "merged_twice"
    /\ UNCHANGED <<data, pivots, lookback, tolerance_multiplier, zones>>
    /\ Frame("merge")

NextMerge == MergeOnce \/ MergeAgain

SpecMerge == InitMerge /\ [][NextMerge]_vars

\* C5: merging is idempotent: _merge_zones applied to the list a first _merge_zones
\* call returned (same tolerance multiplier, zones with high >= low) returns a list
\* of the same zones: same bounds, same order, same length.
C5_MergeIdempotent ==
    [][(pc = "merged_once" /\ pc' = "merged_twice") =>
          Deref(objects', remerged') = Deref(objects, merged_zones)]_vars

\* A second merge of a list of two zones that the first merge made out of three,
\* one of them wider than any zone given.
C5_Witness ==
    /\ pc = "merged_twice"
    /\ Len(zones) = 3
    /\ Len(remerged) = 2
    /\ tolerance_multiplier = DefaultToleranceMultiplier
    /\ \E p \in 1..2 : objects[remerged[p]].high - objects[remerged[p]].low = MergeMaxPrice - 2

(***************************************************************************)
(* The detectors: find_fvgs, find_sd_zones, find_order_blocks.  Each is    *)
(* run statement by statement: the outer loop creates a zone dict with     *)
(* mitigated False, the inner loop scans the later candles for a           *)
(* mitigation, and the zone is appended if the scan left it unmitigated.   *)
(***************************************************************************)
\* One turn of a mitigation scan written without the break:
\*     zone['mitigated'] = <test>
\* so that the scan runs to the end of the series and the last candle decides.
ScanStepNoBreak(z, hit, kk, n) ==
    [zone |-> [z EXCEPT !.mitigated = hit], k |-> kk + 1, over |-> kk + 1 >= n]

\* One turn of a mitigation scan at candle kk of n:
\*     if <test>: zone['mitigated'] = True; break
\* over says that the loop has ended, by the break or by running out of candles.
ScanStep(z, hit, kk, n) ==
    IF hit THEN [zone |-> [z EXCEPT !.mitigated = TRUE], k |-> kk, over |-> TRUE]
    ELSE [zone |-> z, k |-> kk + 1, over |-> kk + 1 >= n]

\* The position after a zone dict is made: the scan from candle kk, or past it when
\* there is no later candle.
AfterCreate(kk, n, scanPc, appendPc) == IF kk < n THEN scanPc ELSE appendPc

(***************************************************************************)
(* find_fvgs                                                               *)
(***************************************************************************)
\* The bullish test with a touch counted as a gap: c1['high'] <= c3['low'].
IsBullishFvgOrTouch(df, ii) == Iloc(df, ii - 2).high <= Iloc(df, ii).low

\* Line 276, and the dict of line 278.
IsBullishFvg(df, ii) == Iloc(df, ii - 2).high < Iloc(df, ii).low

\* The dict of line 278 with its bounds exchanged.
BullishFvgZoneSwapped(df, ii) ==
    Zone(Iloc(df, ii - 2).high, Iloc(df, ii).low, Iloc(df, ii - 1).time, FALSE)

BullishFvgZone(df, ii) ==
    Zone(Iloc(df, ii).low, Iloc(df, ii - 2).high, Iloc(df, ii - 1).time, FALSE)

\* Line 288, and the dict of line 290.
IsBearishFvg(df, ii) == Iloc(df, ii - 2).low > Iloc(df, ii).high

BearishFvgZone(df, ii) ==
    Zone(Iloc(df, ii - 2).low, Iloc(df, ii).high, Iloc(df, ii - 1).time, FALSE)

\* for i in range(2, len(df)), then the bullish test of line 276.
FvgBullTest ==
    /\ pc = "fvg_bull"
    /\ IF loop_i >= Len(data)
       THEN /\ pc' = "fvg_return"
            /\ UNCHANGED <<zone_data, made, scan_k>>
       ELSE IF IsBullishFvg(data, loop_i)
       THEN /\ zone_data' = BullishFvgZone(data, loop_i)
            /\ made' = made + 1
            /\ scan_k' = loop_i + 1
            /\ pc' = AfterCreate(loop_i + 1, Len(data), "fvg_bull_scan", "fvg_bull_append")
       ELSE /\ pc' = "fvg_bear"
            /\ UNCHANGED <<zone_data, made, scan_k>>
    /\ UNCHANGED <<data, pivots, lookback, loop_i, bullish, bearish, result>>
    /\ Frame("detect")

\* Lines 280-283.
FvgBullScan ==
    /\ pc = "fvg_bull_scan"
    /\ LET r == ScanStep(zone_data, Iloc(data, scan_k).low <= zone_data.high, scan_k, Len(data))
       IN  /\ zone_data' = r.zone
           /\ scan_k' = r.k
           /\ pc' = IF r.over THEN "fvg_bull_append" ELSE "fvg_bull_scan"
    /\ UNCHANGED <<data, pivots, lookback, loop_i, made, bullish, bearish, result>>
    /\ Frame("detect")

\* The append of line 285 without the test of line 284.
FvgBullAppendAlways ==
    /\ pc = "fvg_bull_append"
    /\ bullish' = Append(bullish, zone_data)
    /\ pc' = "fvg_bear"
    /\ UNCHANGED <<data, pivots, lookback, loop_i, scan_k, zone_data, made, bearish, result>>
    /\ Frame("detect")

\* Lines 284-285.
FvgBullAppend ==
    /\ pc = "fvg_bull_append"
    /\ bullish' = IF ~zone_data.mitigated THEN Append(bullish, zone_data) ELSE bullish
    /\ pc' = "fvg_bear"
    /\ UNCHANGED <<data, pivots, lookback, loop_i, scan_k, zone_data, made, bearish, result>>
    /\ Frame("detect")

\* The bearish test of line 288; without a gap the loop moves to the next i.
FvgBearTest ==
    /\ pc = "fvg_bear"
    /\ IF IsBearishFvg(data, loop_i)
       THEN /\ zone_data' = BearishFvgZone(data, loop_i)
            /\ made' = made + 1
            /\ scan_k' = loop_i + 1
            /\ pc' = AfterCreate(loop_i + 1, Len(data), "fvg_bear_scan", "fvg_bear_append")
            /\ UNCHANGED loop_i
       ELSE /\ pc' = "fvg_bull"
            /\ loop_i' = loop_i + 1
            /\ UNCHANGED <<zone_data, made, scan_k>>
    /\ UNCHANGED <<data, pivots, lookback, bullish, bearish, result>>
    /\ Frame("detect")

\* Lines 292-295.
FvgBearScan ==
    /\ pc = "fvg_bear_scan"
    /\ LET r == ScanStep(zone_data, Iloc(data, scan_k).high >= zone_data.low, scan_k, Len(data))
       IN  /\ zone_data' = r.zone
           /\ scan_k' = r.k
           /\ pc' = IF r.over THEN "fvg_bear_append" ELSE "fvg_bear_scan"
    /\ UNCHANGED <<data, pivots, lookback, loop_i, made, bullish, bearish, result>>
    /\ Frame("detect")

\* Lines 296-297, then the next i.
FvgBearAppend ==
    /\ pc = "fvg_bear_append"
    /\ bearish' = IF ~zone_data.mitigated THEN Append(bearish, zone_data) ELSE bearish
    /\ pc' = "fvg_bull"
    /\ loop_i' = loop_i + 1
    /\ UNCHANGED <<data, pivots, lookback, scan_k, zone_data, made, bullish, result>>
    /\ Frame("detect")

\* return bullish_fvg[-2:], bearish_fvg[-2:]
FvgReturn ==
    /\ pc = "fvg_return"
    /\ result' = <<LastK(bullish, 2), LastK(bearish, 2)>>
    /\ pc' = "done"
    /\ UNCHANGED <<data, pivots, lookback, loop_i, scan_k, zone_data, made, bullish, bearish>>
    /\ Frame("detect")

FvgBars == {b \in [low : 1..FvgMaxPrice, high : 1..FvgMaxPrice] : b.low <= b.high}

\* A find_fvgs call on a series of up to FvgMaxLen candles.
InitFvg ==
    /\ pc = "fvg_bull"
    /\ \E bars \in SeqUpTo(FvgBars, FvgMaxLen) : data = BarsData(bars)
    /\ pivots = <<>>
    /\ lookback = 0
    /\ loop_i = 2

(***************************************************************************)
(* find_sd_zones                                                           *)
(***************************************************************************)
SdLookback == 50

\* threshold_multiplier=1.5, as <<numerator, denominator>>.
ThresholdMultiplier == <<3, 2>>

\* df['range'].tail(lookback): the positions of the last min(lookback, n) candles.
TailPositions(df, lb) == (Max(0, Len(df) - lb))..(Len(df) - 1)

Range(c) == c.high - c.low

RECURSIVE SumRanges(_, _)
SumRanges(df, P) ==
    IF P = {} THEN 0
    ELSE LET q == CHOOSE x \in P : TRUE
         IN  Range(Iloc(df, q)) + SumRanges(df, P \ {q})

\* avg_range, as <<sum of the ranges, how many>>.
AvgRange(df, lb) == <<SumRanges(df, TailPositions(df, lb)), Cardinality(TailPositions(df, lb))>>

\* Line 189: base_candle['range'] < avg_range.
is_base(c, avg) == Range(c) * avg[2] < avg[1]

\* Line 190: explosive_candle['range'] > avg_range * threshold_multiplier.
is_explosive(c, avg) ==
    Range(c) * avg[2] * ThresholdMultiplier[2] > avg[1] * ThresholdMultiplier[1]

\* Lines 198 and 208: the side is Demand when the explosive candle closed above its
\* open, and Supply in every other case.
IsDemand(explosive_candle) == explosive_candle.close > explosive_candle.open

\* Line 180 (df['range'] = df['high'] - df['low']) raises KeyError on a frame without
\* columns; then for i in range(1, len(df) - 1), the test of line 192 and the dict of
\* line 194.
SdTest ==
    /\ pc = "sd_loop"
    /\ IF ~columns
       THEN /\ pc' = "raised"
            /\ UNCHANGED <<loop_i, zone_data, made, scan_k>>
       ELSE IF loop_i >= Len(data) - 1
       THEN /\ pc' = "sd_return"
            /\ UNCHANGED <<loop_i, zone_data, made, scan_k>>
       ELSE LET base_candle == Iloc(data, loop_i)
                explosive_candle == Iloc(data, loop_i + 1)
                avg_range == AvgRange(data, lookback)
            IN  IF is_base(base_candle, avg_range) /\ is_explosive(explosive_candle, avg_range)
                THEN /\ zone_data' = Zone(base_candle.high, base_candle.low, base_candle.time, FALSE)
                     /\ made' = made + 1
                     /\ scan_k' = loop_i + 2
                     /\ pc' = AfterCreate(loop_i + 2, Len(data), "sd_scan", "sd_append")
                     /\ UNCHANGED loop_i
                ELSE /\ loop_i' = loop_i + 1
                     /\ pc' = "sd_loop"
                     /\ UNCHANGED <<zone_data, made, scan_k>>
    /\ UNCHANGED <<data, pivots, lookback, bullish, bearish, result>>
    /\ Frame("detect")

\* Lines 197-205.
SdScan ==
    /\ pc = "sd_scan"
    /\ LET hit == IF IsDemand(Iloc(data, loop_i + 1))
                  THEN Iloc(data, scan_k).low <= zone_data.high
                  ELSE Iloc(data, scan_k).high >= zone_data.low
           r == ScanStep(zone_data, hit, scan_k, Len(data))
       IN  /\ zone_data' = r.zone
           /\ scan_k' = r.k
           /\ pc' = IF r.over THEN "sd_append" ELSE "sd_scan"
    /\ UNCHANGED <<data, pivots, lookback, loop_i, made, bullish, bearish, result>>
    /\ Frame("detect")

\* Lines 207-211, then the next i.
SdAppend ==
    /\ pc = "sd_append"
    /\ IF zone_data.mitigated THEN UNCHANGED <<bullish, bearish>>
       ELSE IF IsDemand(Iloc(data, loop_i + 1))
       THEN bullish' = Append(bullish, zone_data) /\ UNCHANGED bearish
       ELSE bearish' = Append(bearish, zone_data) /\ UNCHANGED bullish
    /\ loop_i' = loop_i + 1
    /\ pc' = "sd_loop"
    /\ UNCHANGED <<data, pivots, lookback, scan_k, zone_data, made, result>>
    /\ Frame("detect")

\* Lines 213-216: each list is merged in place and the last two merged zones are
\* returned.
SdReturn ==
    /\ pc = "sd_return"
    /\ LET d == MergeZones(bullish, DefaultToleranceMultiplier)
           u == MergeZones(bearish, DefaultToleranceMultiplier)
       IN  /\ bullish' = d.zones
           /\ bearish' = u.zones
           /\ result' = <<LastK(d.merged, 2), LastK(u.merged, 2)>>
    /\ pc' = "done"
    /\ UNCHANGED <<data, pivots, lookback, loop_i, scan_k, zone_data, made>>
    /\ Frame("detect")

\* Candles with a direction: up (close above open), down, or flat.
DirBars(maxPrice) ==
    {b \in [low : 1..maxPrice, high : 1..maxPrice, dir : {"up", "down", "flat"}] :
        b.low <= b.high /\ (b.low = b.high => b.dir = "flat")}

DirData(bars) ==
    [p \in 1..Len(bars) |->
        Candle(p - 1,
               IF bars[p].dir = "down" THEN bars[p].high ELSE bars[p].low,
               bars[p].high, bars[p].low,
               IF bars[p].dir = "up" THEN bars[p].high ELSE bars[p].low)]

\* A find_sd_zones call on a series of up to SdMaxLen candles.
InitSd ==
    /\ pc = "sd_loop"
    /\ \E bars \in SeqUpTo(DirBars(SdMaxPrice), SdMaxLen) : data = DirData(bars)
    /\ pivots = <<>>
    /\ lookback \in {MaxLookback, SdLookback}
    /\ loop_i = 1

(***************************************************************************)
(* find_order_blocks                                                       *)
(***************************************************************************)
\* The last candle of positions lo..hi that closed up (up = TRUE) or down, or -1:
\* the search of lines 338-339 and 373-374, from hi downwards.
\* The search from lo upwards: the first such candle instead of the last.
FirstCandle(df, lo, hi, up) ==
    LET C == {j \in lo..hi : IF up THEN Iloc(df, j).close > Iloc(df, j).open
                             ELSE Iloc(df, j).close < Iloc(df, j).open}
    IN  IF C = {} THEN -1 ELSE CHOOSE j \in C : \A m \in C : m >= j

LastCandle(df, lo, hi, up) ==
    LET C == {j \in lo..hi : IF up THEN Iloc(df, j).close > Iloc(df, j).open
                             ELSE Iloc(df, j).close < Iloc(df, j).open}
    IN  IF C = {} THEN -1 ELSE CHOOSE j \in C : \A m \in C : m <= j

\* The setup without the sweep test of line 321: any swing high after the first
\* qualifies, whether or not it exceeds the one before it.
BearishSetupAnyHigh(ps, ii) ==
    LET swing_highs == Swings(ps, "high")
        swing_lows == Swings(ps, "low")
        sweep_high == swing_highs[ii + 1]
        relevant_lows == {q \in 1..Len(swing_lows) : swing_lows[q].index < sweep_high.index}
    IN  /\ relevant_lows # {}
        /\ \E q \in 1..Len(swing_lows) :
              /\ swing_lows[q].index > sweep_high.index
              /\ \E rl \in relevant_lows : swing_lows[q].price < swing_lows[rl].price

\* Lines 321-335 for swing_highs[ii]: the sweep of the previous high, a low before the
\* sweep, and a later low below one of the lows before it.
BearishSetup(ps, ii) ==
    LET swing_highs == Swings(ps, "high")
        swing_lows == Swings(ps, "low")
        sweep_high == swing_highs[ii + 1]
        prev_high == swing_highs[ii]
        relevant_lows == {q \in 1..Len(swing_lows) : swing_lows[q].index < sweep_high.index}
    IN  /\ sweep_high.price > prev_high.price
        /\ relevant_lows # {}
        /\ \E q \in 1..Len(swing_lows) :
              /\ swing_lows[q].index > sweep_high.index
              /\ \E rl \in relevant_lows : swing_lows[q].price < swing_lows[rl].price

\* Lines 358-370 for swing_lows[ii].
BullishSetup(ps, ii) ==
    LET swing_highs == Swings(ps, "high")
        swing_lows == Swings(ps, "low")
        sweep_low == swing_lows[ii + 1]
        prev_low == swing_lows[ii]
        relevant_highs == {q \in 1..Len(swing_highs) : swing_highs[q].index < sweep_low.index}
    IN  /\ sweep_low.price < prev_low.price
        /\ relevant_highs # {}
        /\ \E q \in 1..Len(swing_highs) :
              /\ swing_highs[q].index > sweep_low.index
              /\ \E rh \in relevant_highs : swing_highs[q].price > swing_highs[rh].price

CandleZone(c) == Zone(c.high, c.low, c.time, FALSE)

\* for i in range(1, len(swing_highs)), then lines 317-341.
ObBearTest ==
    /\ pc = "ob_bear"
    /\ LET swing_highs == Swings(pivots, "high")
       IN  IF loop_i >= Len(swing_highs)
           THEN /\ pc' = "ob_bull"
                /\ loop_i' = 1
                /\ UNCHANGED <<zone_data, made, scan_k>>
           ELSE LET s == swing_highs[loop_i + 1].index
                    j == LastCandle(data, swing_highs[loop_i].index + 1, s, TRUE)
                IN  IF BearishSetup(pivots, loop_i) /\ j # -1
                    THEN /\ zone_data' = CandleZone(Iloc(data, j))
                         /\ made' = made + 1
                         /\ scan_k' = s + 1
                         /\ pc' = AfterCreate(s + 1, Len(data), "ob_bear_scan", "ob_bear_append")
                         /\ UNCHANGED loop_i
                    ELSE /\ loop_i' = loop_i + 1
                         /\ pc' = "ob_bear"
                         /\ UNCHANGED <<zone_data, made, scan_k>>
    /\ UNCHANGED <<data, pivots, lookback, bullish, bearish, result>>
    /\ Frame("detect")

\* Lines 344-347.
ObBearScan ==
    /\ pc = "ob_bear_scan"
    /\ LET r == ScanStep(zone_data, Iloc(data, scan_k).high >= zone_data.low, scan_k, Len(data))
       IN  /\ zone_data' = r.zone
           /\ scan_k' = r.k
           /\ pc' = IF r.over THEN "ob_bear_append" ELSE "ob_bear_scan"
    /\ UNCHANGED <<data, pivots, lookback, loop_i, made, bullish, bearish, result>>
    /\ Frame("detect")

\* Lines 348-350, then the next i.
ObBearAppend ==
    /\ pc = "ob_bear_append"
    /\ bearish' = IF ~zone_data.mitigated THEN Append(bearish, zone_data) ELSE bearish
    /\ loop_i' = loop_i + 1
    /\ pc' = "ob_bear"
    /\ UNCHANGED <<data, pivots, lookback, scan_k, zone_data, made, bullish, result>>
    /\ Frame("detect")

\* for i in range(1, len(swing_lows)), then lines 354-376.
ObBullTest ==
    /\ pc = "ob_bull"
    /\ LET swing_lows == Swings(pivots, "low")
       IN  IF loop_i >= Len(swing_lows)
           THEN /\ pc' = "ob_return"
                /\ UNCHANGED <<loop_i, zone_data, made, scan_k>>
           ELSE LET s == swing_lows[loop_i + 1].index
                    j == LastCandle(data, swing_lows[loop_i].index + 1, s, FALSE)
                IN  IF BullishSetup(pivots, loop_i) /\ j # -1
                    THEN /\ zone_data' = CandleZone(Iloc(data, j))
                         /\ made' = made + 1
                         /\ scan_k' = s + 1
                         /\ pc' = AfterCreate(s + 1, Len(data), "ob_bull_scan", "ob_bull_append")
                         /\ UNCHANGED loop_i
                    ELSE /\ loop_i' = loop_i + 1
                         /\ pc' = "ob_bull"
                         /\ UNCHANGED <<zone_data, made, scan_k>>
    /\ UNCHANGED <<data, pivots, lookback, bullish, bearish, result>>
    /\ Frame("detect")

\* Lines 379-382.
ObBullScan ==
    /\ pc = "ob_bull_scan"
    /\ LET r == ScanStep(zone_data, Iloc(data, scan_k).low <= zone_data.high, scan_k, Len(data))
       IN  /\ zone_data' = r.zone
           /\ scan_k' = r.k
           /\ pc' = IF r.over THEN "ob_bull_append" ELSE "ob_bull_scan"
    /\ UNCHANGED <<data, pivots, lookback, loop_i, made, bullish, bearish, result>>
    /\ Frame("detect")

\* Lines 383-385, then the next i.
ObBullAppend ==
    /\ pc = "ob_bull_append"
    /\ bullish' = IF ~zone_data.mitigated THEN Append(bullish, zone_data) ELSE bullish
    /\ loop_i' = loop_i + 1
    /\ pc' = "ob_bull"
    /\ UNCHANGED <<data, pivots, lookback, scan_k, zone_data, made, bearish, result>>
    /\ Frame("detect")

\* return bullish_obs[-2:], bearish_obs[-2:]
ObReturn ==
    /\ pc = "ob_return"
    /\ result' = <<LastK(bullish, 2), LastK(bearish, 2)>>
    /\ pc' = "done"
    /\ UNCHANGED <<data, pivots, lookback, loop_i, scan_k, zone_data, made, bullish, bearish>>
    /\ Frame("detect")

\* Candles that closed up or down when they have a range, flat when they have none.
ObBars == {b \in DirBars(ObMaxPrice) : b.low < b.high => b.dir # "flat"}

\* The pivot list find_levels would hand over for a marking of the candles: in index
\* order, prices and times the candle's.
MarkedPivots(df, marks) ==
    LET f[p \in 1..(Len(df) + 1)] ==
            IF p > Len(df) THEN <<>>
            ELSE (IF marks[p] = "low" THEN <<Pivot(df, p - 1, "low")>> ELSE <<>>)
                 \o (IF marks[p] = "high" THEN <<Pivot(df, p - 1, "high")>> ELSE <<>>)
                 \o f[p + 1]
    IN  f[1]

\* How a candle is marked in the pivot list: not a pivot, a swing low or a swing high.
PivotMarks == {"none", "low", "high"}

\* A find_order_blocks call on a series of up to ObMaxLen candles and a pivot list
\* over it.
InitOb ==
    /\ pc = "ob_bear"
    /\ \E bars \in SeqUpTo(ObBars, ObMaxLen) :
          /\ data = DirData(bars)
          /\ \E marks \in [1..Len(bars) -> PivotMarks] :
                pivots = MarkedPivots(data, marks)
    /\ lookback = 0
    /\ loop_i = 1

\* The locals of a detector call at its entry.
DetectEntry ==
    /\ entry_pc = pc
    /\ columns \in {TRUE, Len(data) > 0}
    /\ scan_k = 0
    /\ zone_data = None
    /\ made = 0
    /\ bullish = <<>>
    /\ bearish = <<>>
    /\ result = None

InitDetect ==
    /\ (InitFvg \/ InitSd \/ InitOb)
    /\ DetectEntry
    /\ Parked("detect")

NextDetect ==
    \/ FvgBullTest \/ FvgBullScan \/ FvgBullAppend
    \/ FvgBearTest \/ FvgBearScan \/ FvgBearAppend \/ FvgReturn
    \/ SdTest \/ SdScan \/ SdAppend \/ SdReturn
    \/ ObBearTest \/ ObBearScan \/ ObBearAppend
    \/ ObBullTest \/ ObBullScan \/ ObBullAppend \/ ObReturn

SpecDetect == InitDetect /\ [][NextDetect]_vars

\* The zones a detector call has collected so far.
Collected == [p \in 1..(Len(bullish) + Len(bearish)) |->
                 IF p <= Len(bullish) THEN bullish[p] ELSE bearish[p - Len(bullish)]]

\* C6: within one call of find_sd_zones, find_fvgs or find_order_blocks, every zone
\* starts with mitigated false, the flag is set to true at most once, and once it is
\* true no later step of the call writes the zone again, so it never goes back to false;
\* the zones already collected stay unmitigated.
C6_MitigatedMonotonic ==
    [][/\ made' # made => made' = made + 1 /\ zone_data'.mitigated = FALSE
       /\ (made' = made /\ made > 0 /\ zone_data.mitigated) => zone_data' = zone_data
       /\ \A p \in 1..Len(Collected') : Collected'[p].mitigated = FALSE]_vars

\* A gap was mitigated by the first candle after it although the candle after that one
\* stays clear of the gap: the scan stopped at the first hit.
C6_Witness ==
    /\ pc = "fvg_bull_append"
    /\ zone_data.mitigated
    /\ scan_k + 1 < Len(data)
    /\ Iloc(data, scan_k + 1).low > zone_data.high

\* A sweep at swings[ii + 1] of the prior swing swings[ii]: higher for highs, lower
\* for lows.
IsSweep(swings, ii, up) ==
    IF up THEN swings[ii + 1].price > swings[ii].price
    ELSE swings[ii + 1].price < swings[ii].price

\* A break-of-structure pivot later than time t: a swing of the other side beyond one
\* that existed before the sweep.
BosAfter(others, sweep, t, up) ==
    \E q, r \in 1..Len(others) :
        /\ others[q].time > t
        /\ others[r].time < sweep.time
        /\ IF up THEN others[q].price < others[r].price
           ELSE others[q].price > others[r].price

\* The statement with the sweep pivot before the block's candle.
SweepPrecedes(ob, swings, others, up) ==
    \E ii \in 1..(Len(swings) - 1) :
        /\ IsSweep(swings, ii, up)
        /\ swings[ii + 1].time < ob.time
        /\ BosAfter(others, swings[ii + 1], ob.time, up)

\* The statement with the block's candle after the prior swing point and no later than
\* the sweep pivot, and the break of structure after the sweep.
BlockUpToSweep(ob, swings, others, up) ==
    \E ii \in 1..(Len(swings) - 1) :
        /\ IsSweep(swings, ii, up)
        /\ swings[ii].time < ob.time
        /\ ob.time <= swings[ii + 1].time
        /\ BosAfter(others, swings[ii + 1], swings[ii + 1].time, up)

\* find_order_blocks is the detector that is handed a pivot list.
InOrderBlocks == pc \in {"ob_bear", "ob_bear_scan", "ob_bear_append",
                         "ob_bull", "ob_bull_scan", "ob_bull_append", "ob_return"}
                 \/ (pc = "done" /\ pivots # <<>>)

\* C7 as stated: every order block find_order_blocks emits has a liquidity-sweep pivot
\* that precedes the block's candle in time and a break-of-structure pivot that follows
\* the block's candle.
C7_SweepPrecedesBlock ==
    InOrderBlocks =>
        /\ \A p \in 1..Len(bearish) :
              SweepPrecedes(bearish[p], Swings(pivots, "high"), Swings(pivots, "low"), TRUE)
        /\ \A p \in 1..Len(bullish) :
              SweepPrecedes(bullish[p], Swings(pivots, "low"), Swings(pivots, "high"), FALSE)

\* C7, amended: every order block find_order_blocks emits has a liquidity-sweep pivot
\* (a swing high above the prior swing high for Bearish, a swing low below the prior
\* swing low for Bullish) such that the block's candle is after the prior swing point
\* and at or before the sweep pivot, never after it, and a break-of-structure pivot
\* that follows the sweep, and so the block, in time.
C7_BlockUpToSweep ==
    InOrderBlocks =>
        /\ \A p \in 1..Len(bearish) :
              BlockUpToSweep(bearish[p], Swings(pivots, "high"), Swings(pivots, "low"), TRUE)
        /\ \A p \in 1..Len(bullish) :
              BlockUpToSweep(bullish[p], Swings(pivots, "low"), Swings(pivots, "high"), FALSE)

\* A call returned a Bearish block whose candle is the sweep candle itself.
C7_Witness ==
    /\ pc = "done"
    /\ pivots # <<>>
    /\ Len(result[2]) = 1
    /\ \E q \in 1..Len(pivots) :
          /\ pivots[q].type = "high"
          /\ pivots[q].time = result[2][1].time
          /\ \E r \in 1..Len(pivots) :
                pivots[r].type = "high" /\ pivots[r].index < pivots[q].index
                    /\ pivots[r].price < pivots[q].price

(***************************************************************************)
(* get_trade_suggestion, calculate_confidence and                          *)
(* _run_single_timeframe_analysis                                          *)
(***************************************************************************)
\* The prices of a suggestion are held in thousandths of a price unit, so that
\* zone['low'] * 0.999 and zone['high'] * 1.001 are exact.
Milli == 1000
SlBelow == 999
SlAbove == 1001
RiskRewardRatio == 2
NeutralScore == 30
BaseScore == 50
ConfluenceScore == 15
MaxScore == 95
ErrorConfidence == 0

\* A suggestion dict that has no "action" key.
NoAction == "<no action key>"

Suggestion(a, e, sl, tp, r) == [action |-> a, entry |-> e, sl |-> sl, tp |-> tp, reason |-> r]

NeutralSuggestion(r) == Suggestion("Neutral", Null, Null, Null, r)

Abs(x) == IF x < 0 THEN -x ELSE x
MinOf(S) == CHOOSE x \in S : \A y \in S : x <= y
MaxOf(S) == CHOOSE x \in S : \A y \in S : y <= x

\* Python's truth test of an optional number: None and 0 are false.
Truthy(o) == Len(o) > 0 /\ Val(o) # 0

\* The stop placed on the zone's own bound, without the 0.1% buffer.
StopAtLow(zone) == zone.low * Milli

\* Line 443: sl = zone['low'] * 0.999, in thousandths.
StopBelow(zone) == zone.low * SlBelow

\* The stop placed on the zone's high itself, without the 0.1% buffer.
StopAtHigh(zone) == zone.high * Milli

\* Line 456: sl = zone['high'] * 1.001, in thousandths.
StopAbove(zone) == zone.high * SlAbove

\* The zones of one collection, each with the collection's key.
TypedZones(a, zone_type) ==
    [p \in 1..Len(a[zone_type]) |-> [zone_type |-> zone_type, zone |-> a[zone_type][p]]]

\* The collections taken in the reverse of the order of zone_types.
CandidatesReversed(a, zone_types) ==
    TypedZones(a, zone_types[3]) \o TypedZones(a, zone_types[2]) \o TypedZones(a, zone_types[1])

\* The nested loops of lines 440-441 and 453-454: the collections in the order of
\* zone_types, each in list order.
Candidates(a, zone_types) ==
    TypedZones(a, zone_types[1]) \o TypedZones(a, zone_types[2]) \o TypedZones(a, zone_types[3])

\* Lines 442 and 455.
Containing(cs, current_price) ==
    {p \in 1..Len(cs) : cs[p].zone.low <= current_price /\ current_price <= cs[p].zone.high}

\* Lines 443-449 for the first containing zone c.
BuySuggestion(a, c) ==
    LET current_price == a.current_price
        sl == StopBelow(c.zone)
        risk == current_price * Milli - sl
        buy_liq_prices == {a.buy_side_liquidity[p].price : p \in
                              {q \in 1..Len(a.buy_side_liquidity) :
                                  a.buy_side_liquidity[q].price > current_price}}
        tp_target == IF buy_liq_prices = {} THEN Null ELSE Num(MinOf(buy_liq_prices))
        tp == IF Truthy(tp_target) THEN Val(tp_target) * Milli
              ELSE current_price * Milli + risk * RiskRewardRatio
    IN  Suggestion("Buy", Num(current_price * Milli), Num(sl), Num(tp),
                   <<"Uptrend, price retesting", c.zone_type>>)

\* Lines 456-462 for the first containing zone c.
SellSuggestion(a, c) ==
    LET current_price == a.current_price
        sl == StopAbove(c.zone)
        risk == sl - current_price * Milli
        sell_liq_prices == {a.sell_side_liquidity[p].price : p \in
                               {q \in 1..Len(a.sell_side_liquidity) :
                                   a.sell_side_liquidity[q].price < current_price}}
        tp_target == IF sell_liq_prices = {} THEN Null ELSE Num(MaxOf(sell_liq_prices))
        tp == IF Truthy(tp_target) THEN Val(tp_target) * Milli
              ELSE current_price * Milli - risk * RiskRewardRatio
    IN  Suggestion("Sell", Num(current_price * Milli), Num(sl), Num(tp),
                   <<"Downtrend, price retesting", c.zone_type>>)

\* The engine with a Ranging market handled like a Downtrend: a Sell from a containing
\* supply-side zone.
SuggestionFadingRange(a) ==
    LET ms == a.market_structure[1]
        up == Candidates(a, <<"demand_zones", "bullish_ob", "bullish_fvg">>)
        down == Candidates(a, <<"supply_zones", "bearish_ob", "bearish_fvg">>)
    IN  IF ms = "Uptrend"
        THEN IF Containing(up, a.current_price) = {}
             THEN NeutralSuggestion(<<"Uptrend, but not in a key support zone.">>)
             ELSE BuySuggestion(a, up[MinOf(Containing(up, a.current_price))])
        ELSE IF Containing(down, a.current_price) = {}
             THEN NeutralSuggestion(<<"Downtrend, but not in a key resistance zone.">>)
             ELSE SellSuggestion(a, down[MinOf(Containing(down, a.current_price))])

\* Lines 434-465.
get_trade_suggestion(a) ==
    LET ms == a.market_structure[1]
        up == Candidates(a, <<"demand_zones", "bullish_ob", "bullish_fvg">>)
        down == Candidates(a, <<"supply_zones", "bearish_ob", "bearish_fvg">>)
    IN  IF ms = "Uptrend"
        THEN IF Containing(up, a.current_price) = {}
             THEN NeutralSuggestion(<<"Uptrend, but not in a key support zone.">>)
             ELSE BuySuggestion(a, up[MinOf(Containing(up, a.current_price))])
        ELSE IF ms = "Downtrend"
        THEN IF Containing(down, a.current_price) = {}
             THEN NeutralSuggestion(<<"Downtrend, but not in a key resistance zone.">>)
             ELSE SellSuggestion(a, down[MinOf(Containing(down, a.current_price))])
        ELSE NeutralSuggestion(<<"Ranging market, no clear edge.">>)

\* 'Bullish' in p['name'] and 'Bearish' in p['name'], over the names of the model:
\* find_candlestick_patterns names its patterns B_... and S_..., which hold neither
\* word.
PatternNames == {"B_ENGULFING", "S_ENGULFING", "Bullish Engulfing", "Bearish Engulfing"}
DetectorPatternNames == {"B_ENGULFING", "S_ENGULFING"}
Contains(name, word) ==
    \/ name = "Bullish Engulfing" /\ word = "Bullish"
    \/ name = "Bearish Engulfing" /\ word = "Bearish"

\* any(z['low'] <= entry <= z['high'] for z in ...), the entry in thousandths.
InZone(zs, entry) ==
    \E p \in 1..Len(zs) : zs[p].low * Milli <= Val(entry) /\ Val(entry) <= zs[p].high * Milli

\* any(abs(level - entry) / entry < 0.001 for level in ...).  With a zero entry and
\* numpy.float64 levels the quotient is inf or nan and the test is false.
NearLevel(levels, entry) ==
    \E p \in 1..Len(levels) :
        Val(entry) > 0 /\ Abs(levels[p] * Milli - Val(entry)) * Milli < Val(entry)

HasPattern(patterns, word) == \E p \in 1..Len(patterns) : Contains(patterns[p].name, word)

\* The collections calculate_confidence reads for a Buy (lines 476-479) or a Sell
\* (lines 484-487).
Read(a, action) ==
    IF action = "Buy"
    THEN [ob |-> a.bullish_ob, fvg |-> a.bullish_fvg, levels |-> a.support, word |-> "Bullish"]
    ELSE [ob |-> a.bearish_ob, fvg |-> a.bearish_fvg, levels |-> a.resistance, word |-> "Bearish"]

\* Whether calculate_confidence raises: a KeyError without an action, a TypeError when
\* a None entry is compared with a zone or subtracted from a level, a
\* ZeroDivisionError when a zero entry divides a Python float.
ConfidenceRaises(a, s, ft) ==
    \/ s.action = NoAction
    \/ /\ s.action \in {"Buy", "Sell"}
       /\ LET r == Read(a, s.action)
          IN  \/ s.entry = Null /\ Len(r.ob) + Len(r.fvg) + Len(r.levels) > 0
              \/ s.entry = Num(0) /\ ft = "float" /\ Len(r.levels) > 0

Confluences(a, s) ==
    LET r == Read(a, s.action)
        one(cond) == IF cond THEN 1 ELSE 0
    IN  one(InZone(r.ob, s.entry)) + one(InZone(r.fvg, s.entry))
            + one(NearLevel(r.levels, s.entry))
            + one(HasPattern(a.candlestick_patterns, r.word))

\* The score returned as it is, without the cap.
Uncapped(score) == score

\* Line 490: min(score, 95).
Capped(score) == Min(score, MaxScore)

\* The test of line 469 never taken.
IsNeutralNever(s) == FALSE

\* Line 469.
IsNeutral(s) == s.action = "Neutral"

\* Lines 467-490, when the call does not raise.
calculate_confidence(a, s) ==
    IF IsNeutral(s) THEN NeutralScore
    ELSE Capped(BaseScore + (IF s.action \in {"Buy", "Sell"}
                             THEN Confluences(a, s) * ConfluenceScore ELSE 0))

\* The zones, pools, levels and patterns an analysis dict holds.
AnZones ==
    {Zone(b.high, b.low, TimeAt(0), FALSE) :
        b \in {c \in [low : 1..AnMaxPrice, high : 1..AnMaxPrice] : c.low <= c.high}}
ZoneLists == {<<>>} \cup {<<z>> : z \in AnZones}
PoolLists == {<<>>} \cup {<<[price |-> q]>> : q \in 0..(AnMaxPrice + 1)}
LevelLists == {<<>>} \cup {<<q>> : q \in 1..AnMaxPrice}

\* Collections of up to two zones and of up to two pools.
ZonePairs == ZoneLists \cup {<<y, z>> : y \in AnZones, z \in AnZones}
PoolPairs ==
    PoolLists \cup {<<[price |-> q], [price |-> r]>> :
                        q \in 0..(AnMaxPrice + 1), r \in 0..(AnMaxPrice + 1)}
PatternLists(names) == {<<>>} \cup {<<[name |-> nm]>> : nm \in names}

\* An analysis dict whose keys of one side are filled and whose keys of the other
\* side are empty lists (what analysis.get(key, []) reads for an absent key).
Analysis(cp, ms, side, sd, ob, fvg, buy, sell, levels, patterns) ==
    LET on(side_of, v) == IF side = side_of THEN v ELSE <<>>
    IN  [current_price |-> cp,
         market_structure |-> <<ms, "">>,
         demand_zones |-> on("bullish", sd), supply_zones |-> on("bearish", sd),
         bullish_ob |-> on("bullish", ob), bearish_ob |-> on("bearish", ob),
         bullish_fvg |-> on("bullish", fvg), bearish_fvg |-> on("bearish", fvg),
         buy_side_liquidity |-> buy, sell_side_liquidity |-> sell,
         support |-> on("bullish", levels), resistance |-> on("bearish", levels),
         candlestick_patterns |-> patterns]

Sides == {"bullish", "bearish"}

\* The entries a suggestion can carry: none, zero, a price, a price just below one.
Entries ==
    {Null, Num(0), Num(AnMaxPrice * Milli - 1)} \cup {Num(q * Milli) : q \in 1..AnMaxPrice}

\* The suggestion dicts json.loads can hand back from the model's answer.
Suggestions ==
    {Suggestion(act, e, Null, Null, <<"gemini">>) :
        act \in {"Buy", "Sell", "Neutral", "Hold", NoAction}, e \in Entries}

\* The dict get_gemini_analysis returns without an answer (lines 616, 656, 659).
GeminiFallbacks ==
    {NeutralSuggestion(<<r>>) : r \in {"Gemini AI not configured.",
                                       "Error parsing Gemini response.",
                                       "Error communicating with Gemini AI."}}

AnalysisEntry ==
    /\ data = <<>> /\ pivots = <<>> /\ lookback = 0
    /\ confidence = Null
    /\ error = FALSE

\* A get_trade_suggestion call.
InitSuggest ==
    /\ pc = "get_trade_suggestion"
    /\ \E cp \in 1..AnMaxPrice, ms \in {"Uptrend", "Downtrend", "Ranging"}, side \in Sides,
          sd \in ZonePairs, ob \in ZoneLists, fvg \in ZoneLists, pools \in PoolPairs :
          analysis = Analysis(cp, ms, side, sd, ob, fvg,
                              IF side = "bullish" THEN pools ELSE <<>>,
                              IF side = "bearish" THEN pools ELSE <<>>, <<>>, <<>>)
    /\ float_type = "numpy.float64"
    /\ suggestion = None

\* A calculate_confidence call on any analysis and suggestion.
InitScore ==
    /\ pc = "calculate_confidence"
    /\ \E side \in Sides, ob \in ZoneLists, fvg \in ZoneLists, levels \in LevelLists,
          patterns \in PatternLists(PatternNames) :
          analysis = Analysis(1, "Ranging", side, <<>>, ob, fvg, <<>>, <<>>, levels, patterns)
    /\ float_type \in {"float", "numpy.float64"}
    /\ suggestion \in Suggestions

\* _run_single_timeframe_analysis inside its try block, the detectors at work; the
\* levels are numpy.float64 values read from the DataFrame.
InitPipeline ==
    /\ pc = "analysis"
    /\ \E side \in Sides, ob \in ZoneLists, fvg \in ZoneLists, levels \in LevelLists,
          patterns \in PatternLists(DetectorPatternNames) :
          analysis = Analysis(1, "Ranging", side, <<>>, ob, fvg, <<>>, <<>>, levels, patterns)
    /\ float_type = "numpy.float64"
    /\ suggestion = None

InitAnalysis ==
    /\ (InitSuggest \/ InitScore \/ InitPipeline)
    /\ AnalysisEntry
    /\ Parked("analysis")

\* get_trade_suggestion returns.
GetTradeSuggestion ==
    /\ pc = "get_trade_suggestion"
    /\ suggestion' = get_trade_suggestion(analysis)
    /\ pc' = "suggested"
    /\ UNCHANGED <<data, pivots, lookback, analysis, float_type, confidence, error>>
    /\ Frame("analysis")

\* calculate_confidence returns or raises.
CalculateConfidence ==
    /\ pc = "calculate_confidence"
    /\ IF ConfidenceRaises(analysis, suggestion, float_type)
       THEN pc' = "raised" /\ UNCHANGED confidence
       ELSE pc' = "scored" /\ confidence' = Num(calculate_confidence(analysis, suggestion))
    /\ UNCHANGED <<data, pivots, lookback, analysis, float_type, suggestion, error>>
    /\ Frame("analysis")

\* app.py lines 699-706: the except block of the pipeline.
AnalysisFailed ==
    /\ suggestion' = NeutralSuggestion(<<"Analysis error.">>)
    /\ confidence' = Num(ErrorConfidence)
    /\ error' = TRUE
    /\ pc' = "returned"

\* app.py lines 667-685: a detector or an indicator raises.
DetectorRaises ==
    /\ pc = "analysis"
    /\ AnalysisFailed
    /\ UNCHANGED <<data, pivots, lookback, analysis, float_type>>
    /\ Frame("analysis")

\* app.py lines 688-689: the detectors have returned and the suggestion is Gemini's.
GetGeminiAnalysis ==
    /\ pc = "analysis"
    /\ suggestion' \in Suggestions \cup GeminiFallbacks
    /\ pc' = "confidence"
    /\ UNCHANGED <<data, pivots, lookback, analysis, float_type, confidence, error>>
    /\ Frame("analysis")

\* app.py lines 691-697: the score, then the narrative and the prediction, which do
\* not raise.
ScoreSuggestion ==
    /\ pc = "confidence"
    /\ IF ConfidenceRaises(analysis, suggestion, float_type)
       THEN AnalysisFailed
       ELSE /\ confidence' = Num(calculate_confidence(analysis, suggestion))
            /\ pc' = "returned"
            /\ UNCHANGED <<suggestion, error>>
    /\ UNCHANGED <<data, pivots, lookback, analysis, float_type>>
    /\ Frame("analysis")

NextAnalysis ==
    \/ GetTradeSuggestion
    \/ CalculateConfidence
    \/ DetectorRaises
    \/ GetGeminiAnalysis
    \/ ScoreSuggestion

SpecAnalysis == InitAnalysis /\ [][NextAnalysis]_vars

\* A confidence has been produced: by calculate_confidence itself, or in the record
\* the pipeline returns.
Produced == pc \in {"scored", "returned"}

\* C8: every confidence produced, by calculate_confidence for any analysis and
\* suggestion or by the single-timeframe pipeline with its failure path, is a number
\* in the closed range 0..100, and for a non-neutral suggestion it never exceeds the
\* cap of 95.
C8_ConfidenceInRange ==
    Produced =>
        /\ confidence # Null
        /\ Val(confidence) \in 0..100
        /\ suggestion.action # "Neutral" => Val(confidence) <= MaxScore

\* A Buy with all four confluences: 50 + 4 * 15 = 110 before the cap, 95 after it.
C8_Witness ==
    /\ pc = "scored"
    /\ suggestion.action = "Buy"
    /\ Confluences(analysis, suggestion) = 4
    /\ confidence = Num(MaxScore)

\* C9 as stated: whenever the suggestion attached to an analysis is Neutral, the
\* confidence is exactly the baseline 30, on every path that produces one.
C9_NeutralIsBaseline ==
    (Produced /\ suggestion.action = "Neutral") => confidence = Num(NeutralScore)

\* C9, amended: calculate_confidence scores a Neutral suggestion exactly 30, and so
\* does the pipeline when it completes; the record of the pipeline's failure path
\* carries a Neutral suggestion with confidence 0.
C9_NeutralBaselineOrError ==
    (Produced /\ suggestion.action = "Neutral") =>
        confidence = IF error THEN Num(ErrorConfidence) ELSE Num(NeutralScore)

\* The pipeline's failure path returned its Neutral record with confidence 0.
C9_Witness ==
    /\ pc = "returned"
    /\ error
    /\ suggestion.action = "Neutral"
    /\ confidence = Num(ErrorConfidence)

\* C10: whenever get_trade_suggestion returns an action other than Neutral, entry, sl
\* and tp are all present and the stop is on the losing side of the entry (sl < entry
\* for Buy, sl > entry for Sell, prices being positive); whenever it returns Neutral,
\* entry, sl and tp are all absent.
C10_SuggestionShape ==
    pc = "suggested" =>
        IF suggestion.action = "Neutral"
        THEN suggestion.entry = Null /\ suggestion.sl = Null /\ suggestion.tp = Null
        ELSE /\ suggestion.action \in {"Buy", "Sell"}
             /\ suggestion.entry # Null /\ suggestion.sl # Null /\ suggestion.tp # Null
             /\ suggestion.action = "Buy" => Val(suggestion.sl) < Val(suggestion.entry)
             /\ suggestion.action = "Sell" => Val(suggestion.sl) > Val(suggestion.entry)

\* A Buy at the very low of its demand zone, where only the 0.1% buffer keeps the
\* stop below the entry.
C10_Witness ==
    /\ pc = "suggested"
    /\ suggestion.action = "Buy"
    /\ Len(analysis.demand_zones) > 0
    /\ analysis.current_price = analysis.demand_zones[1].low
    /\ Val(suggestion.entry) - Val(suggestion.sl) = analysis.current_price

\* The prices of the pools of a collection, and whether they are all positive.
PoolPrices(pools) == {pools[p].price : p \in 1..Len(pools)}
PositivePools(a) ==
    \A q \in PoolPrices(a.buy_side_liquidity) \cup PoolPrices(a.sell_side_liquidity) : q > 0

\* The first zone of a collection that contains the price, the collection having one.
HasContaining(zs, price) == \E p \in 1..Len(zs) : zs[p].low <= price /\ price <= zs[p].high
FirstContaining(zs, price) ==
    zs[MinOf({p \in 1..Len(zs) : zs[p].low <= price /\ price <= zs[p].high})]

C12_RangingFades ==
    (pc = "suggested" /\ analysis.market_structure[1] = "Ranging") =>
        suggestion.action =
            IF HasContaining(analysis.supply_zones, analysis.current_price) THEN "Sell"
            ELSE IF HasContaining(analysis.demand_zones, analysis.current_price) THEN "Buy"
            ELSE "Neutral"

\* C12, amended: in the Ranging state get_trade_suggestion tests no zone at all; it
\* returns Neutral with the reason "Ranging market, no clear edge." and no entry, stop
\* or take-profit, whether or not a Supply or Demand zone contains the price.
C12_RangingIsNeutral ==
    (pc = "suggested" /\ analysis.market_structure[1] = "Ranging") =>
        suggestion = NeutralSuggestion(<<"Ranging market, no clear edge.">>)

\* A Ranging market with the price inside a Supply zone, and a Neutral suggestion.
C12_Witness ==
    /\ pc = "suggested"
    /\ analysis.market_structure[1] = "Ranging"
    /\ HasContaining(analysis.supply_zones, analysis.current_price)
    /\ suggestion.action = "Neutral"

\* The positions of a find_fvgs call.
FvgPcs == {"fvg_bull", "fvg_bull_scan", "fvg_bull_append",
           "fvg_bear", "fvg_bear_scan", "fvg_bear_append", "fvg_return"}

\* What one step of a find_fvgs call may do to the gap being made and to the loop.
FvgStep ==
    pc \in FvgPcs =>
        /\ (pc = "fvg_bull" /\ loop_i < Len(data)) =>
              IF data[loop_i - 1].high < data[loop_i + 1].low
              THEN /\ made' = made + 1
                   /\ zone_data' = [low |-> data[loop_i - 1].high,
                                    high |-> data[loop_i + 1].low,
                                    time |-> data[loop_i].time, mitigated |-> FALSE]
              ELSE made' = made
        /\ (pc = "fvg_bear") =>
              IF data[loop_i - 1].low > data[loop_i + 1].high
              THEN /\ made' = made + 1
                   /\ zone_data' = [low |-> data[loop_i + 1].high,
                                    high |-> data[loop_i - 1].low,
                                    time |-> data[loop_i].time, mitigated |-> FALSE]
              ELSE made' = made
        /\ (~(pc = "fvg_bull" /\ loop_i < Len(data)) /\ pc # "fvg_bear") => made' = made
        /\ (loop_i' # loop_i) =>
              (loop_i' = loop_i + 1 /\ pc \in {"fvg_bear", "fvg_bear_append"})
        /\ (pc' = "fvg_bear") =>
              (pc \in {"fvg_bull", "fvg_bull_append"} /\ loop_i < Len(data))
        /\ (pc' = "fvg_return") => (loop_i >= Len(data))

\* C13: find_fvgs visits every triple of consecutive candles (c1, c2, c3) once, in
\* order.  At a triple it makes a Bullish gap exactly when c1.high < c3.low, with
\* low = c1.high, high = c3.low and time = c2.time, and a Bearish gap exactly when
\* c1.low > c3.high, with low = c3.high, high = c1.low and time = c2.time; no other
\* step of the call makes a gap, and the call returns only after the last triple.
C13_FvgRecognition == [][FvgStep]_vars

\* A Bullish gap has just been made from the triple ending at candle loop_i, and the
\* same triple is not a Bearish gap.
C13_Witness ==
    /\ pc \in {"fvg_bull_scan", "fvg_bull_append"}
    /\ scan_k = loop_i + 1
    /\ ~zone_data.mitigated
    /\ zone_data.low = data[loop_i - 1].high
    /\ zone_data.high = data[loop_i + 1].low
    /\ zone_data.low < zone_data.high
    /\ zone_data.time = data[loop_i].time

\* The 0-based indices i of the third candles of the triples of df, in order.
Thirds(df) == [p \in 1..(IF Len(df) > 2 THEN Len(df) - 2 ELSE 0) |-> p + 1]

\* The Bullish gaps of df that no candle after c3 reaches down into, oldest first.
OpenBullishGaps(df) ==
    LET open(ii) == /\ df[ii - 1].high < df[ii + 1].low
                    /\ \A j \in (ii + 2)..Len(df) : df[j].low > df[ii + 1].low
        at == SelectSeq(Thirds(df), open)
    IN  [p \in 1..Len(at) |-> [low |-> df[at[p] - 1].high, high |-> df[at[p] + 1].low,
                               time |-> df[at[p]].time, mitigated |-> FALSE]]

\* The Bearish gaps of df that no candle after c3 reaches up into, oldest first.
OpenBearishGaps(df) ==
    LET open(ii) == /\ df[ii - 1].low > df[ii + 1].high
                    /\ \A j \in (ii + 2)..Len(df) : df[j].high < df[ii + 1].high
        at == SelectSeq(Thirds(df), open)
    IN  [p \in 1..Len(at) |-> [low |-> df[at[p] + 1].high, high |-> df[at[p] - 1].low,
                               time |-> df[at[p]].time, mitigated |-> FALSE]]

\* The last two entries of a list, written out.
LastTwo(s) == IF Len(s) <= 2 THEN s ELSE <<s[Len(s) - 1], s[Len(s)]>>

\* C14: find_fvgs returns, per side, the two most recent of the gaps that no later
\* candle has reached: a Bullish gap of (c1, c2, c3) is a candidate as long as no candle
\* after c3 has low <= c3.low and is dropped once one has, a Bearish gap as long as no
\* candle after c3 has high >= c3.high; every gap returned has mitigated false.
C14_FvgOutput ==
    [][(pc = "fvg_return" /\ pc' = "done") =>
          result' = <<LastTwo(OpenBullishGaps(data)), LastTwo(OpenBearishGaps(data))>>]_vars

\* find_fvgs has returned from a series of five candles in which every triple is a
\* Bullish gap that no later candle reached: the oldest of the three is cut by the
\* limit of two.
C14_Witness ==
    /\ pc = "done"
    /\ pivots = <<>>
    /\ lookback = 0
    /\ loop_i = Len(data)
    /\ Len(OpenBullishGaps(data)) = 3
    /\ made = 3
    /\ result = <<LastTwo(OpenBullishGaps(data)), <<>>>>
    /\ Len(result[1]) = 2

(***************************************************************************)
(* Every producer of zones: a call of a detector on candles, or a call of  *)
(* _merge_zones on a list of zones.                                        *)
(***************************************************************************)
InitZones == InitDetect \/ InitMerge

NextZones == NextDetect \/ NextMerge

SpecZones == InitZones /\ [][NextZones]_vars

WellFormed(z) == z.high >= z.low

\* C15: with candles that have high >= low, and zone lists whose zones have
\* high >= low, every zone a detector makes, collects or returns and every zone
\* _merge_zones holds, before, during and after the merge, has high >= low.
C15_HighAtLeastLow ==
    /\ made > 0 => WellFormed(zone_data)
    /\ \A p \in 1..Len(Collected) : WellFormed(Collected[p])
    /\ pc = "done" => \A side \in 1..2 : \A p \in 1..Len(result[side]) :
                          WellFormed(result[side][p])
    /\ \A o \in 1..Len(objects) : WellFormed(objects[o])

\* _merge_zones has merged two zones that do not contain one another into one, which
\* is wider than either.
C15_Witness ==
    /\ pc = "merged_once"
    /\ Len(zones) = 2
    /\ Len(merged_zones) = 1
    /\ \E o \in 1..Len(objects) :
          /\ objects[merged_zones[1]].low < objects[o].low
          /\ objects[merged_zones[1]].high = objects[o].high
          /\ objects[o].high > objects[o].low

(***************************************************************************)
(* A detector called twice on the same candle series, pivot list and       *)
(* lookback.  The second call starts as every call does, with its locals   *)
(* made anew (lines 183, 270, 310: the lists are created by the call, the   *)
(* loops start from their first index); the first call's result is kept    *)
(* by the caller.                                                          *)
(***************************************************************************)
\* The first index of the outer loop: range(2, ...) in find_fvgs, range(1, ...) in
\* find_sd_zones and find_order_blocks.
FirstIndex(e) == IF e = "fvg_bull" THEN 2 ELSE 1

\* A second call whose lists are the ones the first call left, as with lists kept
\* outside the function.
DetectAgainRetainingLists ==
    /\ pc = "done"
    /\ calls = 1
    /\ calls' = 2
    /\ first_result' = result
    /\ pc' = entry_pc
    /\ loop_i' = FirstIndex(entry_pc)
    /\ scan_k' = 0 /\ zone_data' = None /\ made' = 0 /\ result' = None
    /\ UNCHANGED <<data, pivots, lookback, entry_pc, columns, bullish, bearish>>
    /\ UNCHANGED <<levelVars, structVars, mergeVars, analysisVars, fullVars, poolVars, backtestVars, monitorVars, autotradeVars>>

\* The caller keeps the first result and calls the detector again with the same
\* arguments.
DetectAgain ==
    /\ pc = "done"
    /\ calls = 1
    /\ calls' = 2
    /\ first_result' = result
    /\ pc' = entry_pc
    /\ loop_i' = FirstIndex(entry_pc)
    /\ scan_k' = 0 /\ zone_data' = None /\ made' = 0 /\ result' = None
    /\ bullish' = <<>> /\ bearish' = <<>>
    /\ UNCHANGED <<data, pivots, lookback, entry_pc, columns>>
    /\ UNCHANGED <<levelVars, structVars, mergeVars, analysisVars, fullVars, poolVars, backtestVars, monitorVars, autotradeVars>>

InitTwice ==
    /\ (InitFvg \/ InitSd \/ InitOb)
    /\ DetectEntry
    /\ calls = 1
    /\ first_result = None
    /\ LevelsIdle /\ StructIdle /\ MergeIdle /\ AnalysisIdle /\ FullIdle /\ PoolsIdle
    /\ AutotradeIdle
    /\ MonitorIdle
    /\ BacktestIdle

NextTwice == NextDetect \/ DetectAgain

SpecTwice == InitTwice /\ [][NextTwice]_vars

InsufficientData ==
    \/ entry_pc \in {"fvg_bull", "sd_loop"} /\ Len(data) < 3
    \/ entry_pc = "ob_bear" /\ pivots = <<>>

\* C17 as stated, for find_fvgs, find_sd_zones and find_order_blocks: a call on
\* insufficient data does not raise, and it returns two empty lists.
C17_InsufficientDataIsEmpty ==
    InsufficientData =>
        /\ pc # "raised"
        /\ pc = "done" => result = <<<<>>, <<>>>>

\* find_sd_zones was called with an empty list of candles and raised.
C17_Witness ==
    /\ entry_pc = "sd_loop"
    /\ data = <<>>
    /\ ~columns
    /\ pc = "raised"

\* The score of a Buy or Sell when the proximity check of line 478 or 486 is skipped.
ScoreWithoutProximity(a, s) ==
    LET r == Read(a, s.action)
        one(cond) == IF cond THEN 1 ELSE 0
    IN  Min(BaseScore + ConfluenceScore * (one(InZone(r.ob, s.entry)) + one(InZone(r.fvg, s.entry))
                                             + one(HasPattern(a.candlestick_patterns, r.word))),
            MaxScore)

\* C18 as stated, for calculate_confidence: called with a Buy or Sell whose entry is
\* zero and an analysis whose support (Buy) or resistance (Sell) list is not empty, it
\* does not raise; it returns the score without the proximity confluence.
C18_ZeroEntryGuarded ==
    (/\ pc \in {"scored", "raised"}
     /\ suggestion.action \in {"Buy", "Sell"}
     /\ suggestion.entry = Num(0)
     /\ Len(Read(analysis, suggestion.action).levels) > 0) =>
        /\ pc = "scored"
        /\ confidence = Num(ScoreWithoutProximity(analysis, suggestion))

\* calculate_confidence was called with a zero entry and a level list of Python floats,
\* the zone lists empty, and raised: the division of line 478 or 486 is the only
\* operation that can have.
C18_Witness ==
    /\ pc = "raised"
    /\ float_type = "float"
    /\ suggestion.action \in {"Buy", "Sell"}
    /\ suggestion.entry = Num(0)
    /\ Len(Read(analysis, suggestion.action).levels) > 0
    /\ Read(analysis, suggestion.action).ob = <<>>
    /\ Read(analysis, suggestion.action).fvg = <<>>

(***************************************************************************)
(* _run_full_analysis and _run_single_timeframe_analysis (app.py), with    *)
(* the analysis dict of a timeframe given by the keys it has.  Which call  *)
(* raises, if any, is an input: a detector raises on data it cannot        *)
(* handle.                                                                 *)
(***************************************************************************)
\* TRADING_STYLE_TIMEFRAMES["DAY_TRADING"]; every timeframe of every style is a key
\* of TIMEFRAME_MAP, so the test of line 581 never skips one.
Timeframes == <<"M15", "H1", "H4">>

\* The statements of the try block of _run_single_timeframe_analysis, in order, each
\* with the keys it assigns.  get_gemini_analysis and predict_success_rate catch what
\* they raise themselves, and generate_market_narrative does not raise.
Stages == <<
    [call |-> "find_levels", assigns |-> {"support", "resistance"}, raises |-> TRUE],
    [call |-> "determine_market_structure", assigns |-> {"market_structure"}, raises |-> TRUE],
    [call |-> "calculate_emas", assigns |-> {"emas"}, raises |-> TRUE],
    [call |-> "find_ema_crosses", assigns |-> {"ema_crosses"}, raises |-> TRUE],
    [call |-> "calculate_rsi", assigns |-> {"rsi_value"}, raises |-> TRUE],
    [call |-> "find_rsi_divergence", assigns |-> {"rsi_divergence"}, raises |-> TRUE],
    [call |-> "calculate_volume_profile", assigns |-> {"volume_profile"}, raises |-> TRUE],
    [call |-> "find_sd_zones", assigns |-> {"demand_zones", "supply_zones"}, raises |-> TRUE],
    [call |-> "find_order_blocks", assigns |-> {"bullish_ob", "bearish_ob"}, raises |-> TRUE],
    [call |-> "find_fvgs", assigns |-> {"bullish_fvg", "bearish_fvg"}, raises |-> TRUE],
    [call |-> "find_liquidity_pools",
     assigns |-> {"buy_side_liquidity", "sell_side_liquidity"}, raises |-> TRUE],
    [call |-> "find_candlestick_patterns", assigns |-> {"candlestick_patterns"}, raises |-> TRUE],
    [call |-> "get_gemini_analysis", assigns |-> {"suggestion"}, raises |-> FALSE],
    [call |-> "calculate_confidence", assigns |-> {"confidence"}, raises |-> TRUE],
    [call |-> "generate_market_narrative", assigns |-> {"narrative"}, raises |-> FALSE],
    [call |-> "predict_success_rate", assigns |-> {"predicted_success_rate"}, raises |-> FALSE] >>

\* The calls that can be chosen to raise: a statement of the try block, or the read of
\* df.iloc[-1]['close'] of line 665, which is outside it.
Faults ==
    {"none", "current_price"} \cup {Stages[q].call : q \in {r \in 1..Len(Stages) : Stages[r].raises}}

\* Lines 665 and 701-706: the keys of the dict at the start, and those the except block
\* assigns.
StartKeys == {"symbol", "current_price"}
ExceptKeys == {"error", "suggestion", "confidence", "narrative", "predicted_success_rate"}

\* Lines 587 and 606: the dict stored for a timeframe that was not analysed to the end.
ErrorOnly == {"error"}

Store(t, d) == analyses @@ (Timeframes[t] :> d)

\* Lines 580-603: the loop head, the connection, the rates and the call of
\* _run_single_timeframe_analysis up to its try block; line 606 when that call raises.
ForTimeframe ==
    /\ pc = "for_tf"
    /\ IF tf_i > Len(Timeframes)
       THEN pc' = "full_returned" /\ UNCHANGED <<tf_i, step, keys, analyses>>
       ELSE IF avail[tf_i] = "no_connection"
       THEN /\ analyses' = Store(tf_i, ErrorOnly)
            /\ tf_i' = tf_i + 1
            /\ UNCHANGED <<pc, step, keys>>
       ELSE IF avail[tf_i] = "few_bars"
       THEN /\ tf_i' = tf_i + 1
            /\ UNCHANGED <<pc, step, keys, analyses>>
       ELSE IF fault[tf_i] = "current_price"
       THEN /\ analyses' = Store(tf_i, ErrorOnly)
            /\ tf_i' = tf_i + 1
            /\ UNCHANGED <<pc, step, keys>>
       ELSE /\ keys' = StartKeys
            /\ step' = 1
            /\ pc' = "try"
            /\ UNCHANGED <<tf_i, analyses>>
    /\ UNCHANGED <<data, pivots, lookback, fault, avail>>
    /\ Frame("full")

\* Lines 666-706: one statement of the try block.  When it raises, control leaves the
\* block for the except clause, which fills the dict with its defaults; the
\* statements after the raising one are not run.
TryStatement ==
    /\ pc = "try"
    /\ IF fault[tf_i] = Stages[step].call
       THEN /\ keys' = keys \cup ExceptKeys
            /\ pc' = "return_analysis"
            /\ UNCHANGED step
       ELSE /\ keys' = keys \cup Stages[step].assigns
            /\ step' = step + 1
            /\ pc' = IF step = Len(Stages) THEN "return_analysis" ELSE "try"
    /\ UNCHANGED <<data, pivots, lookback, tf_i, analyses, fault, avail>>
    /\ Frame("full")

\* Lines 708 and 602: return analysis; analyses[tf] = ...
ReturnAnalysis ==
    /\ pc = "return_analysis"
    /\ analyses' = Store(tf_i, keys)
    /\ tf_i' = tf_i + 1
    /\ pc' = "for_tf"
    /\ UNCHANGED <<data, pivots, lookback, step, keys, fault, avail>>
    /\ Frame("full")

InitFull ==
    /\ pc = "for_tf"
    /\ data = <<>> /\ pivots = <<>> /\ lookback = 0
    /\ tf_i = 1
    /\ step = 0
    /\ keys = {}
    /\ analyses = <<>>
    /\ fault \in [1..Len(Timeframes) -> Faults]
    /\ avail \in [1..Len(Timeframes) -> {"ok", "no_connection", "few_bars"}]
    /\ Parked("full")

NextFull == ForTimeframe \/ TryStatement \/ ReturnAnalysis

SpecFull == InitFull /\ [][NextFull]_vars

\* The detectors of the try block, and the keys each gives the dict.
Detectors == {"find_levels", "find_sd_zones", "find_order_blocks", "find_fvgs",
              "find_liquidity_pools", "find_candlestick_patterns"}

DetectorKeys(d) == Stages[CHOOSE q \in 1..Len(Stages) : Stages[q].call = d].assigns

\* Timeframe t was analysed: the terminal gave its bars.
Analysed(t) == avail[t] = "ok"

\* C19 as stated: when one detector raises in the analysis of a timeframe, the dict
\* returned for that timeframe reports the failure and has the results of every other
\* detector, those scheduled after the failing one included; and every timeframe that
\* is analysed is in the result of _run_full_analysis, whatever failed in the others.
C19_FailureIsolated ==
    pc = "full_returned" =>
        \A t \in 1..Len(Timeframes) :
            Analysed(t) =>
                /\ Timeframes[t] \in DOMAIN analyses
                /\ fault[t] \in Detectors =>
                      /\ "error" \in analyses[Timeframes[t]]
                      /\ \A d \in Detectors \ {fault[t]} :
                            DetectorKeys(d) \subseteq analyses[Timeframes[t]]

\* find_sd_zones raised in the first timeframe: its dict reports the error and has the
\* levels, found before, but not the order blocks or the gaps, scheduled after; the
\* second timeframe was analysed in full.
C19_Witness ==
    /\ pc = "full_returned"
    /\ Analysed(1) /\ fault[1] = "find_sd_zones"
    /\ Analysed(2) /\ fault[2] = "none"
    /\ "error" \in analyses[Timeframes[1]]
    /\ DetectorKeys("find_levels") \subseteq analyses[Timeframes[1]]
    /\ DetectorKeys("find_order_blocks") \cap analyses[Timeframes[1]] = {}
    /\ DetectorKeys("find_fvgs") \cap analyses[Timeframes[1]] = {}
    /\ "error" \notin analyses[Timeframes[2]]
    /\ DetectorKeys("find_fvgs") \subseteq analyses[Timeframes[2]]

\* The zone that decides under the fixed priority: the first containing zone of the
\* first of the three collections that has one.
Deciding(a, first, second, third) ==
    LET price == a.current_price
        type == IF HasContaining(a[first], price) THEN first
                ELSE IF HasContaining(a[second], price) THEN second
                ELSE third
    IN  [zone_type |-> type, zone |-> FirstContaining(a[type], price)]

AnyContaining(a, first, second, third) ==
    \/ HasContaining(a[first], a.current_price)
    \/ HasContaining(a[second], a.current_price)
    \/ HasContaining(a[third], a.current_price)

\* C20: get_trade_suggestion tests the collections in a fixed order, demand zones,
\* bullish order blocks, bullish FVGs in an Uptrend and supply zones, bearish order
\* blocks, bearish FVGs in a Downtrend, each in list order; the first zone with
\* low <= price <= high gives the stop-loss and the collection named in the reason, also
\* when a later zone contains the price too.
C20_FirstContainingWins ==
    pc = "suggested" =>
        /\ (/\ analysis.market_structure[1] = "Uptrend"
            /\ AnyContaining(analysis, "demand_zones", "bullish_ob", "bullish_fvg")) =>
              LET d == Deciding(analysis, "demand_zones", "bullish_ob", "bullish_fvg")
              IN  /\ suggestion.action = "Buy"
                  /\ suggestion.sl = Num(d.zone.low * SlBelow)
                  /\ suggestion.reason = <<"Uptrend, price retesting", d.zone_type>>
        /\ (/\ analysis.market_structure[1] = "Downtrend"
            /\ AnyContaining(analysis, "supply_zones", "bearish_ob", "bearish_fvg")) =>
              LET d == Deciding(analysis, "supply_zones", "bearish_ob", "bearish_fvg")
              IN  /\ suggestion.action = "Sell"
                  /\ suggestion.sl = Num(d.zone.high * SlAbove)
                  /\ suggestion.reason = <<"Downtrend, price retesting", d.zone_type>>

\* An Uptrend with the price outside the first demand zone, inside the second, and
\* inside an order block that reaches lower: the stop and the reason come from the
\* second demand zone.
C20_Witness ==
    /\ pc = "suggested"
    /\ analysis.market_structure[1] = "Uptrend"
    /\ Len(analysis.demand_zones) = 2
    /\ analysis.demand_zones[1].high < analysis.current_price
    /\ analysis.demand_zones[2].low = analysis.current_price
    /\ HasContaining(analysis.bullish_ob, analysis.current_price)
    /\ analysis.bullish_ob[1].low < analysis.demand_zones[2].low
    /\ suggestion.sl = Num(analysis.demand_zones[2].low * SlBelow)
    /\ suggestion.reason = <<"Uptrend, price retesting", "demand_zones">>

(***************************************************************************)
(* find_liquidity_pools                                                    *)
(***************************************************************************)
PoolMaxPrice == 6
PoolMaxPivots == 4

\* tolerance_percent=0.05, and a wide tolerance of 50 percent, as <<numerator,
\* denominator>>.
DefaultTolerancePercent == <<5, 100>>
WideTolerancePercent == <<50, 1>>

PercentBase == 100

\* Lines 224-225: the swings of one type, highs by falling price, lows by rising
\* price; sorted() is stable, also with reverse=True.
SortedSwings(ps, side) ==
    LET sel == SelectSeq(ps, LAMBDA q : q.type = side)
    IN  StableSortByKey(sel, [q \in 1..Len(sel) |->
                                 IF side = "high" THEN 0 - sel[q].price ELSE sel[q].price])

\* Lines 234-235 and 253-254: the reference of the test is current_group[-1].
Reference(group) == group[Len(group)]

\* Lines 234-235 and 253-254:
\*     tolerance = current_group[-1]['price'] * (tolerance_percent / 100)
\*     abs(swing[i]['price'] - current_group[-1]['price']) <= tolerance
WithinPoolTolerance(a, ref, tp) == Abs(a.price - ref.price) * tp[2] * PercentBase <= ref.price * tp[1]

\* groups.extend(current_group) without the test of the group's length.
ExtendedAlways(gs, group) == gs \o group

\* Lines 238-239, 241-242, 257-258, 260-261:
\*     if len(current_group) > 1: groups.extend(current_group)
Extended(gs, group) == IF Len(group) > 1 THEN gs \o group ELSE gs

\* Lines 245 and 263.
PoolPoints(gs) == [q \in 1..Len(gs) |-> [time |-> gs[q].time, price |-> gs[q].price]]

\* Lines 224-225, then the test of line 230 or 249 and the start of the first group.
PoolsBegin ==
    /\ pc = "pools_begin"
    /\ swing' = SortedSwings(pivots, pool_side)
    /\ groups' = <<>>
    /\ IF Len(swing') > 1
       THEN /\ current_group' = <<swing'[1]>>
            /\ pool_i' = 1
            /\ pc' = "pools_loop"
       ELSE /\ current_group' = <<>>
            /\ pool_i' = 0
            /\ pc' = "pools_next"
    /\ UNCHANGED <<data, pivots, lookback, tolerance_percent, pool_side,
                   buy_side_pools, sell_side_pools>>
    /\ Frame("pools")

\* One turn of the loop of line 233 or 252; after the last turn, lines 241-245 or
\* 260-263.
PoolsLoop ==
    /\ pc = "pools_loop"
    /\ IF pool_i < Len(swing)
       THEN /\ IF WithinPoolTolerance(Iloc(swing, pool_i), Reference(current_group), tolerance_percent)
               THEN /\ current_group' = Append(current_group, Iloc(swing, pool_i))
                    /\ UNCHANGED groups
               ELSE /\ groups' = Extended(groups, current_group)
                    /\ current_group' = <<Iloc(swing, pool_i)>>
            /\ pool_i' = pool_i + 1
            /\ UNCHANGED <<pc, buy_side_pools, sell_side_pools>>
       ELSE /\ groups' = Extended(groups, current_group)
            /\ IF pool_side = "high"
               THEN buy_side_pools' = PoolPoints(groups') /\ UNCHANGED sell_side_pools
               ELSE sell_side_pools' = PoolPoints(groups') /\ UNCHANGED buy_side_pools
            /\ pc' = "pools_next"
            /\ UNCHANGED <<pool_i, current_group>>
    /\ UNCHANGED <<data, pivots, lookback, tolerance_percent, pool_side, swing>>
    /\ Frame("pools")

\* From the buy side to the sell side, then return buy_side_pools, sell_side_pools.
PoolsNext ==
    /\ pc = "pools_next"
    /\ IF pool_side = "high"
       THEN pool_side' = "low" /\ pc' = "pools_begin"
       ELSE pc' = "done" /\ UNCHANGED pool_side
    /\ UNCHANGED <<data, pivots, lookback, tolerance_percent, swing, pool_i, current_group,
                   groups, buy_side_pools, sell_side_pools>>
    /\ Frame("pools")

PoolMarks == [type : {"high", "low"}, price : 1..PoolMaxPrice]

PoolPivots(marks) ==
    [p \in 1..Len(marks) |->
        [type |-> marks[p].type, price |-> marks[p].price, index |-> p, time |-> TimeAt(p)]]

InitPools ==
    /\ pc = "pools_begin"
    /\ data = <<>>
    /\ \E marks \in SeqUpTo(PoolMarks, PoolMaxPivots) : pivots = PoolPivots(marks)
    /\ lookback = 0
    /\ tolerance_percent \in {DefaultTolerancePercent, WideTolerancePercent}
    /\ pool_side = "high"
    /\ swing = <<>> /\ pool_i = 0 /\ current_group = <<>> /\ groups = <<>>
    /\ buy_side_pools = <<>> /\ sell_side_pools = <<>>
    /\ Parked("pools")

NextPools == PoolsBegin \/ PoolsLoop \/ PoolsNext

SpecPools == InitPools /\ [][NextPools]_vars

\* A pivot joins the running group.
Joins == pc = "pools_loop" /\ Len(current_group') = Len(current_group) + 1

\* The running group is emitted: its members are added to groups.
Emits == pc = "pools_loop" /\ groups' # groups

\* C21 as stated: a pivot joins the group only if it is within the tolerance of the
\* group's first member, so that every member of an emitted pool is within the
\* tolerance of the pool's first member; a group is emitted only with more than one
\* member.
C21_WithinFirstMember ==
    [][/\ Joins => WithinPoolTolerance(current_group'[Len(current_group')], current_group[1],
                                   tolerance_percent)
       /\ Emits => /\ Len(current_group) > 1
                   /\ groups' = groups \o current_group
                   /\ \A q \in 1..Len(current_group) :
                         WithinPoolTolerance(current_group[q], current_group[1], tolerance_percent)]_vars

\* C21, amended: a pivot joins the group only if it is within the tolerance of the
\* member added last (the tolerance being that member's price x tolerancePercent/100),
\* so that every member of an emitted pool is within the tolerance of the member
\* before it, but not necessarily of the first; a group is emitted only with more
\* than one member.
C21_WithinLastMember ==
    [][/\ Joins => WithinPoolTolerance(current_group'[Len(current_group')],
                                   current_group[Len(current_group)], tolerance_percent)
       /\ Emits => /\ Len(current_group) > 1
                   /\ groups' = groups \o current_group
                   /\ \A q \in 2..Len(current_group) :
                         WithinPoolTolerance(current_group[q], current_group[q - 1],
                                         tolerance_percent)]_vars

\* A pool of three swing highs has been emitted whose third member is within the
\* tolerance of the second and outside the tolerance of the first.
C21_Witness ==
    /\ pc = "pools_next"
    /\ pool_side = "high"
    /\ Len(buy_side_pools) = 3
    /\ groups = current_group
    /\ WithinPoolTolerance(current_group[3], current_group[2], tolerance_percent)
    /\ ~WithinPoolTolerance(current_group[3], current_group[1], tolerance_percent)

(***************************************************************************)
(* find_sd_zones on series long enough for three zones on one side          *)
(***************************************************************************)
SdWidePrice == 7
SdWideZones == 3

\* The width of the explosive candles of the series below.
SdWideRange == 2

\* A base candle of no range at price p, and an explosive candle from q to
\* q + SdWideRange that closed in direction d.
WideBase(p) == [low |-> p, high |-> p, dir |-> "flat"]
WideExplosive(q, d) == [low |-> q, high |-> q + SdWideRange, dir |-> d]

\* A first candle, then SdWideZones pairs of a base candle and an explosive candle,
\* all explosive candles closing in direction d; ps and qs are the prices.
WideSeries(ps, qs, d) ==
    [c \in 1..(2 * SdWideZones + 1) |->
        IF c = 1 THEN WideBase(ps[1])
        ELSE IF c % 2 = 0 THEN WideBase(ps[c \div 2])
        ELSE WideExplosive(qs[c \div 2], d)]

\* A find_sd_zones call (default lookback) on such a series.
InitSdWide ==
    /\ pc = "sd_loop"
    /\ \E ps \in [1..SdWideZones -> 1..SdWidePrice],
          qs \in [1..SdWideZones -> 1..(SdWidePrice - SdWideRange)],
          d \in {"up", "down"} : data = DirData(WideSeries(ps, qs, d))
    /\ pivots = <<>>
    /\ lookback = SdLookback
    /\ loop_i = 1
    /\ DetectEntry
    /\ Parked("detect")

NextSdWide == SdTest \/ SdScan \/ SdAppend \/ SdReturn

SpecSdWide == InitSdWide /\ [][NextSdWide]_vars

\* The merged zones of a side when lines 213-214 run, and what is returned for it.
MergedSide(side) ==
    MergeZones(IF side = 1 THEN bullish ELSE bearish, DefaultToleranceMultiplier).merged

Returns == pc = "sd_return" /\ pc' = "done"

\* Every merged zone of the side is returned or is older than / below / newer than
\* both returned zones.
Dropped(M, R) == {p \in 1..Len(M) : \A r \in 1..Len(R) : R[r] # M[p]}

RetainsLatest ==
    Returns =>
        \A side \in 1..2 :
            LET M == MergedSide(side)
                R == result'[side]
            IN  Len(M) > 2 =>
                    /\ Len(R) = 2
                    /\ \A p \in Dropped(M, R) : \A r \in 1..2 : R[r].time > M[p].time

RetainsHighest ==
    Returns =>
        \A side \in 1..2 :
            LET M == MergedSide(side)
                R == result'[side]
            IN  /\ \A r \in 1..Len(R) : ~R[r].mitigated
                /\ Len(M) <= 2 => R = M
                /\ Len(M) > 2 =>
                      /\ Len(R) = 2
                      /\ \A p \in Dropped(M, R) : \A r \in 1..2 : R[r].low > M[p].low
                      /\ side = 1 => \A p \in Dropped(M, R) : \A r \in 1..2 : R[r].time > M[p].time
                      /\ side = 2 => \A p \in Dropped(M, R) : \A r \in 1..2 : R[r].time < M[p].time

\* C22 as written: when a side has more than two unmitigated merged zones,
\* find_sd_zones returns two of them and both are later in time than every zone it
\* leaves out.
C22_RetainsLatestInTime == [][RetainsLatest]_vars

\* What lines 213-214 do instead (C22): find_sd_zones returns, per side, only
\* unmitigated zones; all merged zones
\* when there are at most two, and otherwise the two with the highest low price,
\* which are the two latest demand zones but the two earliest supply zones.
C22_RetainsHighestLow == [][RetainsHighest]_vars

\* Three supply zones were found and the latest of them, the lowest, was left out.
C22_Witness ==
    /\ pc = "done"
    /\ entry_pc = "sd_loop"
    /\ Len(data) = 2 * SdWideZones + 1
    /\ Len(bearish) = 3
    /\ Len(result[2]) = 2
    /\ \E p \in 1..3 : \A r \in 1..2 :
          /\ bearish[p] # result[2][r]
          /\ bearish[p].time > result[2][r].time

(***************************************************************************)
(* The list _merge_zones returns                                           *)
(***************************************************************************)
\* A _merge_zones call returns in this step.
MergeReturns == pc \in {"_merge_zones", "merged_once"} /\ pc' # pc

\* The dicts the call was given, as they were before it, and the dicts it returned.
MergeArgument == Deref(objects, IF pc = "_merge_zones" THEN zones ELSE merged_zones)
MergeOutput == Deref(objects', IF pc = "_merge_zones" THEN merged_zones' ELSE remerged')

\* B lies above A by more than A's tolerance.
Apart(A, B, tm) == tm[2] * B.low > tm[2] * A.high + (A.high - A.low) * tm[1]

Encloses(outer, inner) == outer.low <= inner.low /\ inner.high <= outer.high

MergeOutputSeparated ==
    MergeReturns =>
        LET in == MergeArgument
            out == MergeOutput
        IN  /\ \A p \in 1..(Len(out) - 1) :
                  /\ out[p].low <= out[p + 1].low
                  /\ Apart(out[p], out[p + 1], tolerance_multiplier)
            /\ \A p, q \in 1..Len(out) : p < q => out[p].high < out[q].low
            /\ \A p \in 1..Len(in) : \E q \in 1..Len(out) : Encloses(out[q], in[p])

\* C23: the list _merge_zones returns is sorted by low; each zone of it lies above
\* the one before it by more than that zone's tolerance, (high - low) x multiplier,
\* so no two returned zones overlap; and every zone of the argument lies within
\* the bounds of some returned zone.
C23_MergedSortedAndApart == [][MergeOutputSeparated]_vars

\* Three zones were merged into two: one zone was folded into another and one was
\* kept apart.
C23_Witness ==
    /\ pc = "merged_once"
    /\ Len(zones) = 3
    /\ Len(merged_zones) = 2
    /\ tolerance_multiplier = DefaultToleranceMultiplier
    /\ \E p \in 1..3 : \A q \in 1..2 : merged_zones[q] # zones[p]
    /\ objects[merged_zones[1]].high < objects[merged_zones[2]].low

(***************************************************************************)
(* calculate_confidence and the names find_candlestick_patterns gives      *)
(***************************************************************************)
\* Lines 417 and 427: a pattern of value 100 is named "B_" + its upper-case name
\* and a pattern of value -100 "S_" + it.
DetectorName(value) == IF value = 100 THEN "B_ENGULFING" ELSE "S_ENGULFING"

\* The direction of a pattern of find_candlestick_patterns, read from its name.
Direction(name) ==
    IF name \in {DetectorName(100), "Bullish Engulfing"} THEN "Buy" ELSE "Sell"

\* A pattern of the direction of the suggestion is present.
HasMatchingPattern(patterns, action) ==
    \E p \in 1..Len(patterns) : Direction(patterns[p].name) = action

\* The four confluence conditions of the rule, the pattern counted by its direction.
ConfluencesByDirection(a, s) ==
    LET r == Read(a, s.action)
        one(cond) == IF cond THEN 1 ELSE 0
    IN  one(InZone(r.ob, s.entry)) + one(InZone(r.fvg, s.entry))
            + one(NearLevel(r.levels, s.entry))
            + one(HasMatchingPattern(a.candlestick_patterns, s.action))

\* C24 as stated: for a Buy or Sell, calculate_confidence returns 50 plus 15 for each
\* of the four confluence conditions that holds, capped at 95, a candlestick pattern
\* of the suggestion's direction as named by find_candlestick_patterns being one of
\* the four.
C24_PatternRaisesScore ==
    (pc = "scored" /\ suggestion.action \in {"Buy", "Sell"}
        /\ \A p \in 1..Len(analysis.candlestick_patterns) :
              analysis.candlestick_patterns[p].name \in DetectorPatternNames) =>
        confidence = Num(Min(BaseScore + ConfluenceScore * ConfluencesByDirection(analysis, suggestion),
                             MaxScore))

\* A Buy with a bullish pattern of find_candlestick_patterns as its only confluence
\* was scored 50, the score of a Buy without any.
C24_Witness ==
    /\ pc = "scored"
    /\ suggestion.action = "Buy"
    /\ analysis.candlestick_patterns = <<[name |-> DetectorName(100)]>>
    /\ ConfluencesByDirection(analysis, suggestion) = 1
    /\ confidence = Num(BaseScore)

(***************************************************************************)
(* The candle find_order_blocks selects                                    *)
(***************************************************************************)
\* The positions from lo to hi of the candles that closed up (Bearish block) or down
\* (Bullish block).
Closed(lo, hi, bearish_block) ==
    {j \in lo..hi : IF bearish_block THEN Iloc(data, j).close > Iloc(data, j).open
                    ELSE Iloc(data, j).close < Iloc(data, j).open}

\* The step of find_order_blocks for a sweep whose setup is complete: with C the
\* candidate candles, either the block is the last candle of C, or C is empty and
\* the loop goes on to the next swing without a block.  last(p, s) is the last
\* position searched for a sweep at s after a prior swing at p.
SelectsFrom(last(_, _)) ==
    /\ (pc = "ob_bear" /\ loop_i < Len(Swings(pivots, "high")) /\ BearishSetup(pivots, loop_i)) =>
          LET C == Closed(Swings(pivots, "high")[loop_i].index + 1,
                          last(Swings(pivots, "high")[loop_i].index,
                               Swings(pivots, "high")[loop_i + 1].index), TRUE)
          IN  IF C = {}
              THEN pc' = "ob_bear" /\ loop_i' = loop_i + 1 /\ made' = made /\ bearish' = bearish
              ELSE /\ pc' \in {"ob_bear_scan", "ob_bear_append"}
                   /\ zone_data' = CandleZone(Iloc(data, CHOOSE j \in C : \A m \in C : m <= j))
    /\ (pc = "ob_bull" /\ loop_i < Len(Swings(pivots, "low")) /\ BullishSetup(pivots, loop_i)) =>
          LET C == Closed(Swings(pivots, "low")[loop_i].index + 1,
                          last(Swings(pivots, "low")[loop_i].index,
                               Swings(pivots, "low")[loop_i + 1].index), FALSE)
          IN  IF C = {}
              THEN pc' = "ob_bull" /\ loop_i' = loop_i + 1 /\ made' = made /\ bullish' = bullish
              ELSE /\ pc' \in {"ob_bull_scan", "ob_bull_append"}
                   /\ zone_data' = CandleZone(Iloc(data, CHOOSE j \in C : \A m \in C : m <= j))

BeforeSweep(p, s) == s - 1
UpToSweep(p, s) == s

SelectsBeforeSweep == SelectsFrom(BeforeSweep)
SelectsUpToSweep == SelectsFrom(UpToSweep)

SideOf(explosive_candle, flat_side) ==
    IF explosive_candle.close > explosive_candle.open THEN "Demand"
    ELSE IF explosive_candle.close < explosive_candle.open THEN "Supply"
    ELSE flat_side

\* The steps of find_sd_zones for the zone of base candle loop_i: it is created with
\* the base candle's bounds, scanned with the test of its side, and filed under its
\* side if no later candle mitigated it.
FilesBySide(flat_side) ==
    LET side == SideOf(Iloc(data, loop_i + 1), flat_side)
    IN  /\ (pc = "sd_loop" /\ pc' \in {"sd_scan", "sd_append"}) =>
              /\ zone_data'.high = Iloc(data, loop_i).high
              /\ zone_data'.low = Iloc(data, loop_i).low
        /\ (pc = "sd_scan" /\ zone_data'.mitigated) =>
              /\ side = "Demand" => Iloc(data, scan_k).low <= zone_data.high
              /\ side = "Supply" => Iloc(data, scan_k).high >= zone_data.low
              /\ side \in {"Demand", "Supply"}
        /\ (pc = "sd_append" /\ ~zone_data.mitigated) =>
              /\ bullish' = IF side = "Demand" THEN Append(bullish, zone_data) ELSE bullish
              /\ bearish' = IF side = "Supply" THEN Append(bearish, zone_data) ELSE bearish

FlatIsNeither == FilesBySide("neither")
FlatIsSupply == FilesBySide("Supply")

\* C26 as stated: a base candle followed by an explosive candle creates a zone at the
\* base candle's high and low, of side Demand if the explosive candle closed above
\* its open and Supply if it closed below; a zone whose explosive candle closed at
\* its open is of neither side; the mitigation scan uses the test of the side the
\* zone is filed under.
C26_FlatExplosiveIsNeither == [][FlatIsNeither]_vars

\* What lines 198-211 do instead (C26): the same, except that a zone whose explosive
\* candle closed at its open is scanned and filed as Supply.
C26_FlatExplosiveIsSupply == [][FlatIsSupply]_vars

\* An unmitigated zone whose explosive candle closed at its open was filed, and it
\* was filed under Supply.
C26_Witness ==
    /\ pc = "sd_loop"
    /\ entry_pc = "sd_loop"
    /\ loop_i > 1
    /\ made > 0
    /\ Iloc(data, loop_i).close = Iloc(data, loop_i).open
    /\ bearish # <<>>
    /\ bearish[Len(bearish)] = zone_data
    /\ zone_data.time = Iloc(data, loop_i - 1).time

(***************************************************************************)
(* run_backtest (backtest.py).  The detectors' work at a step is an input: *)
(* the analysis dict they fill, from which get_trade_suggestion is         *)
(* computed.  Prices of trades are in thousandths, lot sizes in hundredths *)
(* of a lot.                                                               *)
(***************************************************************************)
BtMaxPrice == 3
BtMaxSteps == 3
Warmup == 50
DefaultBalance == 10000
DefaultRisk == 2

NoTrade == <<>>

\* round(n / m, 0) on the exact quotient, halves to the even neighbour; m > 0.
RoundHalfEven(n, m) ==
    LET q == n \div m
        r == n % m
    IN  IF 2 * r < m THEN q
        ELSE IF 2 * r > m THEN q + 1
        ELSE IF q % 2 = 0 THEN q ELSE q + 1

\* _calculate_position_size, in hundredths of a lot, for a stop distance of d
\* thousandths: sl_pips = d * 10, risk_per_lot = d * 100, and
\* round(amount_to_risk / risk_per_lot, 2) is round(bal * risk_pct / (100 d)) hundredths.
calculate_position_size(bal, risk_pct, d) ==
    IF d = 0 THEN 1
    ELSE Max(RoundHalfEven(bal * risk_pct, 100 * d), 1)

\* Lines 40-41 and 49-50: the comparisons of open_trade['type'] with 'BUY' and 'SELL'.
ReachedTp(t, current_price) ==
    \/ t.type = "BUY" /\ current_price * Milli >= t.tp
    \/ t.type = "SELL" /\ current_price * Milli <= t.tp

ReachedSl(t, current_price) ==
    \/ t.type = "BUY" /\ current_price * Milli <= t.sl
    \/ t.type = "SELL" /\ current_price * Milli >= t.sl

ClosedTrade(t, outcome, pnl) ==
    [type |-> t.type, entry |-> t.entry, sl |-> t.sl, tp |-> t.tp, lot_size |-> t.lot_size,
     size_in_units |-> t.size_in_units, open_time |-> t.open_time,
     outcome |-> outcome, pnl |-> pnl]

\* Lines 39-58: the open trade, the balance and the trade list after the check.  A
\* pnl is (price difference in thousandths) * (hundredths of a lot), which is the
\* difference times size_in_units.
CloseCheck(ot, bal, ts, current_price) ==
    IF ot = NoTrade THEN [open_trade |-> ot, balance |-> bal, trades |-> ts]
    ELSE LET t == ot[1]
             profit == (IF t.type = "SELL" THEN -1 ELSE 1) * (t.tp - t.entry) * t.lot_size
             loss == (IF t.type = "SELL" THEN -1 ELSE 1) * (t.entry - t.sl) * t.lot_size
         IN  IF ReachedTp(t, current_price)
             THEN [open_trade |-> NoTrade, balance |-> bal + profit,
                   trades |-> Append(ts, ClosedTrade(t, "TP", profit))]
             ELSE IF ReachedSl(t, current_price)
             THEN [open_trade |-> NoTrade, balance |-> bal - loss,
                   trades |-> Append(ts, ClosedTrade(t, "SL", -loss))]
             ELSE [open_trade |-> ot, balance |-> bal, trades |-> ts]

\* Lines 73-85: the trade opened from a suggestion that is not Neutral.
NewTrade(s, bal, time) ==
    LET lot_size == calculate_position_size(bal, DefaultRisk, Abs(Val(s.entry) - Val(s.sl)))
    IN  [type |-> s.action, entry |-> Val(s.entry), sl |-> Val(s.sl), tp |-> Val(s.tp),
         lot_size |-> lot_size, size_in_units |-> lot_size * Milli, open_time |-> time]

\* The analysis dicts lines 62-69 can fill at a price.
BtZones ==
    {Zone(b.high, b.low, TimeAt(0), FALSE) :
        b \in {c \in [low : 1..BtMaxPrice, high : 1..BtMaxPrice] : c.low <= c.high}}

BtAnalyses(current_price) ==
    {Analysis(current_price, ms, side, sd, <<>>, <<>>,
              IF side = "bullish" THEN pools ELSE <<>>,
              IF side = "bearish" THEN pools ELSE <<>>, <<>>, <<>>) :
        ms \in {"Uptrend", "Downtrend", "Ranging"}, side \in Sides,
        sd \in {<<>>} \cup {<<z>> : z \in BtZones},
        pools \in {<<>>} \cup {<<[price |-> q]>> : q \in 1..BtMaxPrice}}

\* The close of candle i - 1, which one iteration reads as current_price.
PriceAt(i) == closes[i - Warmup + 1]

\* A run_backtest call with the default settings on no candle, on Warmup candles or
\* fewer, or on up to BtMaxSteps candles more.
InitBacktest ==
    /\ pc = "run_backtest"
    /\ data = <<>> /\ pivots = <<>> /\ lookback = 0
    /\ n_rows \in {0, 1, Warmup} \cup {Warmup + k : k \in 1..BtMaxSteps}
    /\ closes \in [1..Max(0, n_rows - Warmup) -> 1..BtMaxPrice]
    /\ bt_i = 0
    /\ balance = 0
    /\ open_trade = NoTrade
    /\ trades = <<>>
    /\ bt_result = None
    /\ Parked("backtest")

\* Lines 25-35.
BacktestBegin ==
    /\ pc = "run_backtest"
    /\ IF n_rows = 0
       THEN /\ bt_result' = [error |-> "No historical data provided."]
            /\ pc' = "bt_done"
            /\ UNCHANGED <<bt_i, balance>>
       ELSE /\ balance' = DefaultBalance
            /\ bt_i' = Warmup
            /\ pc' = "bt_loop"
            /\ UNCHANGED bt_result
    /\ UNCHANGED <<data, pivots, lookback, n_rows, closes, open_trade, trades>>
    /\ Frame("backtest")

\* One iteration of the loop of line 35: lines 36-85.
BacktestStep ==
    /\ pc = "bt_loop"
    /\ bt_i < n_rows
    /\ LET current_price == PriceAt(bt_i)
           after == CloseCheck(open_trade, balance, trades, current_price)
       IN  /\ balance' = after.balance
           /\ trades' = after.trades
           /\ IF after.open_trade = NoTrade
              THEN \E analysis_dict \in BtAnalyses(current_price) :
                      LET s == get_trade_suggestion(analysis_dict)
                      IN  open_trade' = IF s.action # "Neutral"
                                        THEN <<NewTrade(s, after.balance, TimeAt(bt_i - 1))>>
                                        ELSE NoTrade
              ELSE open_trade' = after.open_trade
    /\ bt_i' = bt_i + 1
    /\ UNCHANGED <<pc, data, pivots, lookback, n_rows, closes, bt_result>>
    /\ Frame("backtest")

RECURSIVE SumPnl(_)
SumPnl(ts) == IF ts = <<>> THEN 0 ELSE ts[1].pnl + SumPnl(Tail(ts))

\* Lines 87-104; win_rate_pct as <<numerator, denominator>>.
BacktestReturn ==
    /\ pc = "bt_loop"
    /\ bt_i >= n_rows
    /\ LET total_trades == Len(trades)
           wins == Cardinality({p \in 1..Len(trades) : trades[p].outcome = "TP"})
       IN  bt_result' = [starting_balance |-> DefaultBalance, final_balance |-> balance,
                         total_trades |-> total_trades, wins |-> wins,
                         losses |-> total_trades - wins,
                         win_rate_pct |-> IF total_trades > 0 THEN <<wins * 100, total_trades>>
                                          ELSE <<0, 1>>,
                         total_pnl |-> SumPnl(trades), trades |-> trades]
    /\ pc' = "bt_done"
    /\ UNCHANGED <<data, pivots, lookback, n_rows, closes, bt_i, balance, open_trade, trades>>
    /\ Frame("backtest")

NextBacktest == BacktestBegin \/ BacktestStep \/ BacktestReturn

SpecBacktest == InitBacktest /\ [][NextBacktest]_vars

\* An iteration with a trade open, and whether the price it reads has reached the
\* trade's take-profit or stop-loss, the trade being a Buy or a Sell as
\* get_trade_suggestion names them.
Iterates == pc = "bt_loop" /\ bt_i' = bt_i + 1

AtTakeProfit(t, current_price) ==
    \/ t.type = "Buy" /\ current_price * Milli >= t.tp
    \/ t.type = "Sell" /\ current_price * Milli <= t.tp

AtStopLoss(t, current_price) ==
    \/ t.type = "Buy" /\ current_price * Milli <= t.sl
    \/ t.type = "Sell" /\ current_price * Milli >= t.sl

AppendedAs(t, outcome) ==
    /\ Len(trades') = Len(trades) + 1
    /\ trades'[Len(trades')].outcome = outcome
    /\ trades'[Len(trades')].open_time = t.open_time

ClosesWhenReached ==
    (Iterates /\ open_trade # NoTrade) =>
        LET t == open_trade[1]
        IN  IF AtTakeProfit(t, PriceAt(bt_i)) THEN AppendedAs(t, "TP")
            ELSE IF AtStopLoss(t, PriceAt(bt_i)) THEN AppendedAs(t, "SL")
            ELSE open_trade' = open_trade /\ trades' = trades

\* C27 as stated: in run_backtest a trade opened from a Buy or Sell suggestion is
\* closed and appended to the trade list with outcome TP at the first later step
\* whose price reaches its take-profit, or with outcome SL at the first later step
\* whose price reaches its stop-loss, and no new trade is opened while it is open.
C27_ClosedWhenReached == [][ClosesWhenReached]_vars

\* What the loop does instead (C27): a trade, once opened, stays open to the end of
\* the run and the trade list stays empty.
C27_NeverClosed ==
    /\ [](trades = <<>>)
    /\ [][(Iterates /\ open_trade # NoTrade) => open_trade' = open_trade]_vars

\* A Buy was opened, the next price was at or above its take-profit, and after that
\* iteration the trade is still open and the trade list is empty.
C27_Witness ==
    /\ pc = "bt_loop"
    /\ bt_i > Warmup + 1
    /\ open_trade # NoTrade
    /\ open_trade[1].type = "Buy"
    /\ open_trade[1].open_time < TimeAt(bt_i - 2)
    /\ PriceAt(bt_i - 1) * Milli >= open_trade[1].tp
    /\ trades = <<>>

(***************************************************************************)
(* manage_breakeven and manage_trailing_stop (trade_monitor.py) as         *)
(* trade_monitoring_loop calls them for one position.  Prices are in       *)
(* points of the symbol; the tick price is an input of each call.          *)
(***************************************************************************)
MaxTick == 12
MaxOpen == 2
MaxPips == 2

Buy == 0
Sell == 1

\* Lines 13-20 and 63-68: a pip is ten points for 3- and 5-digit symbols and one
\* point otherwise, the point being one unit here.
PipSize(d) == IF d \in {3, 5} THEN 10 ELSE 1

\* mt5.symbol_info_tick(...).bid or .ask while the position is open: the price has
\* not reached the stop at the broker.
Ticks ==
    {q \in 1..MaxTick : IF pos_type = Buy THEN q > position_sl
                        ELSE position_sl = 0 \/ q < position_sl}

\* mt5.order_send with a TRADE_ACTION_SLTP request: the broker accepts it or not.
OrderSend(sl) ==
    /\ request' = Num(sl)
    /\ \E done \in BOOLEAN : position_sl' = IF done THEN sl ELSE position_sl

NoRequest == request' = Null /\ UNCHANGED position_sl

\* Lines 26 and 40: the test of manage_breakeven on the position object it was given.
BreakevenDue(current_price) ==
    LET profit == IF pos_type = Buy THEN current_price - price_open
                  ELSE price_open - current_price
    IN  /\ profit >= settings.breakeven_pips * PipSize(digits)
        /\ snapshot_sl # price_open

\* Lines 72-74 and 85-87: new_sl and the test of manage_trailing_stop.
NewSl(current_price) ==
    IF pos_type = Buy THEN current_price - settings.trailing_stop_pips * PipSize(digits)
    ELSE current_price + settings.trailing_stop_pips * PipSize(digits)

TrailingDue(new_sl) ==
    IF pos_type = Buy THEN new_sl > snapshot_sl /\ new_sl > price_open
    ELSE new_sl < snapshot_sl /\ new_sl < price_open

\* A bot position with its stop on the losing side of the open price, or without one.
InitMonitor ==
    /\ pc = "positions_get"
    /\ data = <<>> /\ pivots = <<>> /\ lookback = 0
    /\ pos_type \in {Buy, Sell}
    /\ price_open \in 1..MaxOpen
    /\ position_sl \in {0} \cup (IF pos_type = Buy THEN 1..(price_open - 1)
                                 ELSE (price_open + 1)..(MaxOpen + 1))
    /\ snapshot_sl = 0
    /\ settings \in [breakeven_enabled : BOOLEAN, breakeven_pips : 0..MaxPips,
                     trailing_stop_enabled : BOOLEAN, trailing_stop_pips : 0..MaxPips]
    /\ digits \in {4, 5}
    /\ request = Null
    /\ Parked("monitor")

\* app.py line 1041: a cycle reads the positions; the objects it works on keep the
\* stop-loss they had then.
PositionsGet ==
    /\ pc = "positions_get"
    /\ snapshot_sl' = position_sl
    /\ request' = Null
    /\ pc' = "manage_breakeven"
    /\ UNCHANGED <<data, pivots, lookback, pos_type, price_open, position_sl, settings, digits>>
    /\ Frame("monitor")

\* trade_monitor.py lines 4-52, called at app.py line 1090.
ManageBreakeven ==
    /\ pc = "manage_breakeven"
    /\ IF ~settings.breakeven_enabled \/ settings.breakeven_pips <= 0
       THEN NoRequest
       ELSE \E current_price \in Ticks :
               IF BreakevenDue(current_price) THEN OrderSend(price_open) ELSE NoRequest
    /\ pc' = "manage_trailing_stop"
    /\ UNCHANGED <<data, pivots, lookback, pos_type, price_open, snapshot_sl, settings, digits>>
    /\ Frame("monitor")

\* trade_monitor.py lines 54-95, called at app.py line 1091.
ManageTrailingStop ==
    /\ pc = "manage_trailing_stop"
    /\ IF ~settings.trailing_stop_enabled \/ settings.trailing_stop_pips <= 0
       THEN NoRequest
       ELSE \E current_price \in Ticks :
               IF TrailingDue(NewSl(current_price)) THEN OrderSend(NewSl(current_price))
               ELSE NoRequest
    /\ pc' = "positions_get"
    /\ UNCHANGED <<data, pivots, lookback, pos_type, price_open, snapshot_sl, settings, digits>>
    /\ Frame("monitor")

NextMonitor == PositionsGet \/ ManageBreakeven \/ ManageTrailingStop

SpecMonitor == InitMonitor /\ [][NextMonitor]_vars

BothEnabled ==
    /\ settings.breakeven_enabled /\ settings.breakeven_pips > 0
    /\ settings.trailing_stop_enabled /\ settings.trailing_stop_pips > 0

\* A stop-loss is requested in this step, by the function named.
Requests(function) == pc = function /\ request' # Null

\* The requested stop is not less favourable than the stop the position has.
NotLessFavourable ==
    IF pos_type = Buy THEN Val(request') >= position_sl
    ELSE position_sl = 0 \/ Val(request') <= position_sl

StopNeverRetreats ==
    (BothEnabled /\ (Requests("manage_breakeven") \/ Requests("manage_trailing_stop"))) =>
        NotLessFavourable

\* C28 as stated: with breakeven and trailing stop enabled, over any sequence of
\* monitoring cycles and ticks, the stop-loss requested for a Buy is never below, and
\* for a Sell never above, the stop-loss the position has.
C28_StopNeverRetreats == [][StopNeverRetreats]_vars

\* What holds instead (C28): a stop requested by manage_trailing_stop is never less
\* favourable than the position's stop, and one requested by manage_breakeven is
\* the open price, whatever the position's stop is.
C28_TrailingNeverRetreats ==
    [][/\ Requests("manage_trailing_stop") => NotLessFavourable
       /\ Requests("manage_breakeven") => Val(request') = price_open]_vars

\* manage_breakeven requested the open price for a Buy whose stop the trailing stop
\* had already moved above the open price.
C28_Witness ==
    /\ pc = "manage_trailing_stop"
    /\ pos_type = Buy
    /\ BothEnabled
    /\ snapshot_sl > price_open
    /\ request = Num(price_open)
    /\ position_sl = price_open

(***************************************************************************)
(* handle_start_autotrade, handle_stop_autotrade and trading_loop          *)
(* (app.py).  Requests are served concurrently; a block under STATE.lock   *)
(* is one step, and so is each read or write outside it.                   *)
(***************************************************************************)
MaxHandlers == 2
MaxThreads == 3

Handlers == 1..MaxHandlers
Threads == 1..MaxThreads

\* Thread.is_alive(): started and not yet returned from trading_loop.
IsAlive(t) == threads[t].pc \notin {"unborn", "dead"}

\* STATE.autotrade_thread is None or not STATE.autotrade_thread.is_alive().
NoLiveThread(ref) == ref = 0 \/ ~IsAlive(ref)

At(h, where) == handlers[h].pc = where
Goto(h, where) == handlers' = [handlers EXCEPT ![h].pc = where]
Move(t, where) == threads' = [threads EXCEPT ![t].pc = where]

Starting == {h \in Handlers : handlers[h].pc \in {"start_update", "start_lock"}}

InitAutotrade ==
    /\ pc = "serving"
    /\ data = <<>> /\ pivots = <<>> /\ lookback = 0
    /\ autotrade_running = FALSE
    /\ autotrade_thread = 0
    /\ auto_trading_enabled = FALSE
    /\ handlers = [h \in Handlers |-> [pc |-> "idle", thread_to_join |-> 0]]
    /\ threads = [t \in Threads |-> [pc |-> "unborn", enabled |-> FALSE]]
    /\ stopped = FALSE
    /\ Parked("autotrade")

Shared == <<pc, data, pivots, lookback>>

\* handle_start_autotrade, lines 1419-1422: the check outside the lock.
StartRequest(h) ==
    /\ At(h, "idle")
    /\ Goto(h, IF autotrade_running THEN "idle" ELSE "start_update")
    /\ stopped' = FALSE
    /\ UNCHANGED <<autotrade_running, autotrade_thread, auto_trading_enabled, threads, Shared>>
    /\ Frame("autotrade")

\* Line 1425: STATE.update_settings({"auto_trading_enabled": True}).
StartUpdate(h) ==
    /\ At(h, "start_update")
    /\ auto_trading_enabled' = TRUE
    /\ Goto(h, "start_lock")
    /\ UNCHANGED <<autotrade_running, autotrade_thread, threads, stopped, Shared>>
    /\ Frame("autotrade")

\* Lines 1427-1442, under the lock.  A new Thread object is one not yet used.
StartLocked(h) ==
    /\ At(h, "start_lock")
    /\ IF ~autotrade_running
       THEN /\ autotrade_running' = TRUE
            /\ IF NoLiveThread(autotrade_thread)
               THEN \E t \in Threads :
                       /\ threads[t].pc = "unborn"
                       /\ autotrade_thread' = t
                       /\ Move(t, "while")
               ELSE UNCHANGED <<autotrade_thread, threads>>
       ELSE UNCHANGED <<autotrade_running, autotrade_thread, threads>>
    /\ Goto(h, "idle")
    /\ UNCHANGED <<auto_trading_enabled, stopped, Shared>>
    /\ Frame("autotrade")

\* handle_stop_autotrade, lines 1448-1451.
StopRequest(h) ==
    /\ At(h, "idle")
    /\ Goto(h, IF ~autotrade_running /\ NoLiveThread(autotrade_thread)
               THEN "idle" ELSE "stop_update")
    /\ UNCHANGED <<autotrade_running, autotrade_thread, auto_trading_enabled, threads,
                   stopped, Shared>>
    /\ Frame("autotrade")

\* Line 1455.
StopUpdate(h) ==
    /\ At(h, "stop_update")
    /\ auto_trading_enabled' = FALSE
    /\ Goto(h, "stop_lock")
    /\ UNCHANGED <<autotrade_running, autotrade_thread, threads, stopped, Shared>>
    /\ Frame("autotrade")

\* Lines 1458-1461, under the lock.
StopLocked(h) ==
    /\ At(h, "stop_lock")
    /\ autotrade_running' = FALSE
    /\ handlers' = [handlers EXCEPT ![h] = [pc |-> "stop_alive", thread_to_join |-> autotrade_thread]]
    /\ UNCHANGED <<autotrade_thread, auto_trading_enabled, threads, stopped, Shared>>
    /\ Frame("autotrade")

\* Line 1463: if thread_to_join and thread_to_join.is_alive().
StopAlive(h) ==
    /\ At(h, "stop_alive")
    /\ Goto(h, IF NoLiveThread(handlers[h].thread_to_join) THEN "stop_clear" ELSE "stop_join")
    /\ UNCHANGED <<autotrade_running, autotrade_thread, auto_trading_enabled, threads,
                   stopped, Shared>>
    /\ Frame("autotrade")

\* Lines 1465-1470: join(timeout=10.0) returns, the thread having finished or the
\* ten seconds having passed, and is_alive() is read again.
StopJoin(h) ==
    /\ At(h, "stop_join")
    /\ Goto(h, IF IsAlive(handlers[h].thread_to_join) THEN "stop_return" ELSE "stop_clear")
    /\ UNCHANGED <<autotrade_running, autotrade_thread, auto_trading_enabled, threads,
                   stopped, Shared>>
    /\ Frame("autotrade")

\* Lines 1471 and 1474: with STATE.lock: STATE.autotrade_thread = None.
StopClear(h) ==
    /\ At(h, "stop_clear")
    /\ autotrade_thread' = 0
    /\ Goto(h, "stop_return")
    /\ UNCHANGED <<autotrade_running, auto_trading_enabled, threads, stopped, Shared>>
    /\ Frame("autotrade")

\* Line 1476: return 'Auto-trading stopped.'
StopReturn(h) ==
    /\ At(h, "stop_return")
    /\ handlers' = [handlers EXCEPT ![h] = [pc |-> "idle", thread_to_join |-> 0]]
    /\ stopped' = (Starting = {})
    /\ UNCHANGED <<autotrade_running, autotrade_thread, auto_trading_enabled, threads, Shared>>
    /\ Frame("autotrade")

ThreadFrame ==
    /\ UNCHANGED <<autotrade_running, autotrade_thread, auto_trading_enabled, handlers,
                   stopped, Shared>>
    /\ Frame("autotrade")

\* trading_loop line 915: while STATE.autotrade_running; line 1028 when it is false.
LoopWhile(t) ==
    /\ threads[t].pc = "while"
    /\ Move(t, IF autotrade_running THEN "copy" ELSE "dead")
    /\ ThreadFrame

\* Lines 917-930: the settings are copied; disabled, disconnected or without pairs
\* the thread sleeps and starts over.
LoopCopy(t) ==
    /\ threads[t].pc = "copy"
    /\ \E ready \in BOOLEAN :
          threads' = [threads EXCEPT ![t] =
                         [pc |-> IF auto_trading_enabled /\ ready THEN "for" ELSE "while",
                          enabled |-> auto_trading_enabled]]
    /\ ThreadFrame

\* Lines 933-939: the next symbol, if there is one; the running flag is read, and a
\* symbol with a bot position is skipped.
LoopFor(t) ==
    /\ threads[t].pc = "for"
    /\ \E more \in BOOLEAN, skip \in BOOLEAN :
          Move(t, IF ~more \/ ~autotrade_running THEN "after_for"
                  ELSE IF skip THEN "for" ELSE "analysis")
    /\ ThreadFrame

\* Lines 941-1000: the analysis and the confluence test; with a signal, the test of
\* the settings copy at line 1000.
LoopAnalysis(t) ==
    /\ threads[t].pc = "analysis"
    /\ \E signal \in BOOLEAN :
          Move(t, IF signal /\ threads[t].enabled THEN "execute" ELSE "checked")
    /\ ThreadFrame

\* Lines 1003-1007: _execute_trade_logic is called, then the cooldown.
ExecuteTradeLogic(t) ==
    /\ threads[t].pc = "execute"
    /\ Move(t, "checked")
    /\ ThreadFrame

\* Line 1016: if not STATE.autotrade_running: break.
LoopChecked(t) ==
    /\ threads[t].pc = "checked"
    /\ Move(t, IF autotrade_running THEN "for" ELSE "after_for")
    /\ ThreadFrame

\* Lines 1018-1022: the wait before the next scan.
LoopAfterFor(t) ==
    /\ threads[t].pc = "after_for"
    /\ Move(t, "while")
    /\ ThreadFrame

NextAutotrade ==
    \/ \E h \in Handlers :
          \/ StartRequest(h) \/ StartUpdate(h) \/ StartLocked(h)
          \/ StopRequest(h) \/ StopUpdate(h) \/ StopLocked(h) \/ StopAlive(h)
          \/ StopJoin(h) \/ StopClear(h) \/ StopReturn(h)
    \/ \E t \in Threads :
          \/ LoopWhile(t) \/ LoopCopy(t) \/ LoopFor(t) \/ LoopAnalysis(t)
          \/ ExecuteTradeLogic(t) \/ LoopChecked(t) \/ LoopAfterFor(t)

SpecAutotrade == InitAutotrade /\ [][NextAutotrade]_vars

Alive == {t \in Threads : IsAlive(t)}

\* C29 as stated: under every interleaving of concurrent start_autotrade and
\* stop_autotrade requests, at most one trading_loop thread is alive at any time.
C29_AtMostOneThread == pc = "serving" => Cardinality(Alive) <= 1

\* Two trading_loop threads are alive, one of them no longer referenced by
\* STATE.autotrade_thread, and both find the running flag set.
C29_Witness ==
    /\ pc = "serving"
    /\ Cardinality(Alive) = 2
    /\ autotrade_running
    /\ autotrade_thread \in Alive
    /\ \A h \in Handlers : At(h, "idle")

\* A thread calls _execute_trade_logic in this step.
Executes == \E t \in Threads : threads[t].pc = "execute" /\ threads'[t].pc # "execute"

\* C30 as stated: after a stop_autotrade request has returned 'Auto-trading stopped.'
\* the trading_loop thread does not call _execute_trade_logic until a subsequent
\* start_autotrade request.
C30_NoOrderAfterStop == [][Executes => ~stopped]_vars

\* A stop request has returned while the thread it signalled was still in its
\* analysis with a settings copy that enables trading, and that thread has gone on
\* to the call of _execute_trade_logic; no start request has been made since.
C30_Witness ==
    /\ pc = "serving"
    /\ stopped
    /\ ~autotrade_running
    /\ ~auto_trading_enabled
    /\ Cardinality(Alive) = 1
    /\ \E t \in Alive : threads[t].pc = "execute" /\ autotrade_thread = t

====
